---- MODULE Spec2Model ----
(***************************************************************************)
(* Tower-defense engine of src/pages/TowerDefenseGame.tsx (the six-tower   *)
(* component, lines 259-1116), as a state machine.                         *)
(*                                                                         *)
(* The React state hooks are the variables.  Every event (a click, an      *)
(* animation frame, a fired timeout) is one action: the handler's state    *)
(* updates followed by the commit's effects (game-loop effect, wave-       *)
(* completion effect, spawn effect), which React runs before the next      *)
(* event is dispatched.                                                    *)
(*                                                                         *)
(* Lengths are integers in units of 1/Unit pixel, so that the speed        *)
(* increment 0.05 px per wave is the integer 1.  The maps of the model     *)
(* have the source catalogue's names and order, with a short straight path *)
(* and a small wave count (MapWavesBase).  A fired timeout is an event     *)
(* that may happen at any time after it was scheduled, and one Tick is a   *)
(* run of at most FramesPerTick animation frames.                          *)
(***************************************************************************)
EXTENDS Integers, Sequences, FiniteSets, TLC

VARIABLES
  towers,          \* useState<Tower[]>            :264
  enemies,         \* useState<Enemy[]>            :265
  gold,            \* :266
  lives,           \* :267
  wave,            \* :268
  isPlaying,       \* :269
  gameOver,        \* :270
  victory,         \* :271
  selectedTower,   \* :272
  currentMap,      \* :273
  xpEarned,        \* :274
  unlockedTowers,  \* :275
  unlockedMaps,    \* :276
  placementMode,   \* :278
  killCount,       \* :280
  totalKills,      \* :281
  address,         \* useAccount().address :261 ("none" when no wallet)
  waveTimers,      \* number of pending setTimeout(() => setWave(prev => prev + 1), 2000)
  rafPending,      \* number of pending requestAnimationFrame(gameLoop) callbacks
  now,             \* Date.now() as read by the last animation frame
  recorded,        \* rows inserted into game_sessions since the last reset
  insertThrows,    \* whether supabase rejects the insert :473-485
  insertCalls,     \* calls of insert on game_sessions since the last reset
  \* ChessGame (lines 2257-2688)
  board,           \* useState<Board>             :2260
  selectedSquare,  \* :2261 (NoSquare for null)
  validMoves,      \* :2262
  isPlayerTurn,    \* :2263
  chessOver,       \* gameOver of ChessGame       :2264
  winner,          \* :2265 ("none" for null)
  moveCount,       \* :2268
  capturedPieces,  \* :2270
  aiTimers         \* pending setTimeout callbacks of the AI-turn effect, each
                   \* with the board of the render that scheduled it

towerVars == <<towers, enemies, gold, lives, wave, isPlaying, gameOver,
               victory, selectedTower, currentMap, xpEarned, unlockedTowers,
               unlockedMaps, placementMode, killCount, totalKills, address,
               waveTimers, rafPending, now, recorded, insertThrows,
               insertCalls>>

chessVars == <<board, selectedSquare, validMoves, isPlayerTurn, chessOver,
               winner, moveCount, capturedPieces, aiTimers>>

vars == <<towerVars, chessVars>>

----------------------------------------------------------------------------
(* Bounds of the model *)

MapWavesBase == 2      \* wave count of the first map of the model catalogue
MaxWave == 3           \* the wave counter is not advanced beyond this
MaxTimers == 2         \* pending inter-wave timeouts
MaxEnemies == 9        \* live enemies (Spec)
MaxEnemiesWaves == 20  \* live enemies (SpecWaves)
MaxTowers == 1         \* placed towers
MaxKills == 9          \* kills per session
FramesPerTick == 256   \* consecutive animation frames taken by one Tick
FrameMs == 16          \* milliseconds between two animation frames
Epoch == 2000          \* Date.now() of the first frame of a session
PathLength == 60       \* x-extent in px of the model maps' straight path
RandDenom == 2         \* Math.random() takes the values k / RandDenom
MaxWaveDamage == 9     \* waves of the single-enemy specification (SpecDamage)
MaxFramesResume == 100 \* frames of a game with pauses (SpecResume)
MaxEnemiesResume == 14 \* enemies on the field of a game with pauses (SpecResume)
MaxWaveTypes == 13     \* waves of the type-gate specification (SpecTypes)
RandDenomTypes == 5    \* Math.random() is k / RandDenomTypes in SpecTypes
BoardRows == 4         \* rows of the chess board of the model
BoardCols == 3         \* columns of the chess board of the model
MaxMoves == 6          \* moves of a chess game (SpecChess)

(* Program constants *)

Unit == 20             \* 1 / 0.05: lengths are in 1/20 px
InitialGold == 250
InitialLives == 20
SpawnBase == 5
SpawnSpacing == 50
HealthPerWave == 10
RewardPerWave == 2
ArrivalEps == 5
DamageFloor == 5
KillXp == 5
VictoryBonus == 150
PerWaveBonus == 15
MinDistanceFromPath == 30
UnlockFactor == 3

(* Constants of the four-tower component (lines 1240-1560) *)

SpawnBaseBasic == 3
SpawnSpacingBasic == 40
HealthBasic == 20

----------------------------------------------------------------------------
(* Catalogues *)

TowerKeys == <<"archer", "cannon", "wizard", "frost", "barracks", "tesla">>

TOWER_TYPES ==
  [archer   |-> [cost |-> 50,  damage |-> 15, range |-> 120, fireRate |-> 800],
   cannon   |-> [cost |-> 100, damage |-> 40, range |-> 100, fireRate |-> 1500],
   wizard   |-> [cost |-> 150, damage |-> 30, range |-> 90,  fireRate |-> 1200],
   frost    |-> [cost |-> 120, damage |-> 10, range |-> 100, fireRate |-> 600],
   barracks |-> [cost |-> 80,  damage |-> 20, range |-> 60,  fireRate |-> 1000],
   tesla    |-> [cost |-> 200, damage |-> 60, range |-> 80,  fireRate |-> 2000]]

MapKeys == <<"greenlands", "volcano", "crystalCave">>

MAPS ==
  [greenlands |-> [waves |-> MapWavesBase,
                   path  |-> <<[x |-> 0, y |-> 180 * Unit],
                               [x |-> PathLength * Unit, y |-> 180 * Unit]>>],
   volcano    |-> [waves |-> MapWavesBase + 1,
                   path  |-> <<[x |-> 0, y |-> 100 * Unit],
                               [x |-> PathLength * Unit, y |-> 100 * Unit]>>],
   crystalCave |-> [waves |-> MapWavesBase + 1,
                   path  |-> <<[x |-> 0, y |-> 200 * Unit],
                               [x |-> PathLength * Unit, y |-> 200 * Unit]>>]]

enemyTypes == <<"goblin", "orc", "troll", "dragon", "necromancer">>

\* speed in 1/Unit px per frame: 1.5, 1, 0.7, 1.2, 0.8
baseStats ==
  [goblin      |-> [health |-> 30,  speed |-> 30, armor |-> 0,  reward |-> 10],
   orc         |-> [health |-> 60,  speed |-> 20, armor |-> 5,  reward |-> 15],
   troll       |-> [health |-> 100, speed |-> 14, armor |-> 10, reward |-> 25],
   dragon      |-> [health |-> 150, speed |-> 24, armor |-> 15, reward |-> 40],
   necromancer |-> [health |-> 80,  speed |-> 16, armor |-> 5,  reward |-> 30]]

----------------------------------------------------------------------------
(* Arithmetic helpers *)

Abs(n) == IF n < 0 THEN -n ELSE n

Min(a, b) == IF a < b THEN a ELSE b

Max(a, b) == IF a > b THEN a ELSE b

RECURSIVE SqrtSearch(_, _, _)
SqrtSearch(n, lo, hi) ==
  IF lo >= hi THEN lo
  ELSE LET mid == (lo + hi + 1) \div 2
       IN IF mid * mid <= n THEN SqrtSearch(n, mid, hi)
          ELSE SqrtSearch(n, lo, mid - 1)

\* Math.sqrt on the integer grid: exact on the axis-parallel moves of the
\* model maps, rounded down otherwise
Distance(dx, dy) ==
  IF dy = 0 THEN Abs(dx)
  ELSE IF dx = 0 THEN Abs(dy)
  ELSE SqrtSearch(dx * dx + dy * dy, 0, Abs(dx) + Abs(dy))

RECURSIVE IndexOf(_, _, _)
IndexOf(seq, v, i) ==
  IF i > Len(seq) THEN 0
  ELSE IF seq[i] = v THEN i
  ELSE IndexOf(seq, v, i + 1)

\* Array.prototype.includes
includes(seq, x) == \E i \in 1 .. Len(seq) : seq[i] = x

----------------------------------------------------------------------------
(* The component's state as one record, so that handlers are functions *)

St ==
  [towers |-> towers, enemies |-> enemies, gold |-> gold, lives |-> lives,
   wave |-> wave, isPlaying |-> isPlaying, gameOver |-> gameOver,
   victory |-> victory, selectedTower |-> selectedTower,
   currentMap |-> currentMap, xpEarned |-> xpEarned,
   unlockedTowers |-> unlockedTowers, unlockedMaps |-> unlockedMaps,
   placementMode |-> placementMode, killCount |-> killCount,
   totalKills |-> totalKills, address |-> address,
   waveTimers |-> waveTimers, rafPending |-> rafPending, now |-> now,
   recorded |-> recorded, insertThrows |-> insertThrows,
   insertCalls |-> insertCalls]

Apply(s) ==
  /\ towers' = s.towers
  /\ enemies' = s.enemies
  /\ gold' = s.gold
  /\ lives' = s.lives
  /\ wave' = s.wave
  /\ isPlaying' = s.isPlaying
  /\ gameOver' = s.gameOver
  /\ victory' = s.victory
  /\ selectedTower' = s.selectedTower
  /\ currentMap' = s.currentMap
  /\ xpEarned' = s.xpEarned
  /\ unlockedTowers' = s.unlockedTowers
  /\ unlockedMaps' = s.unlockedMaps
  /\ placementMode' = s.placementMode
  /\ killCount' = s.killCount
  /\ totalKills' = s.totalKills
  /\ address' = s.address
  /\ waveTimers' = s.waveTimers
  /\ rafPending' = s.rafPending
  /\ now' = s.now
  /\ recorded' = s.recorded
  /\ insertThrows' = s.insertThrows
  /\ insertCalls' = s.insertCalls
  /\ UNCHANGED chessVars

\* the bounds of the model, as a guard on the state an event leads to
Fits(s, maxEnemies) ==
  /\ s.wave <= MaxWave
  /\ s.waveTimers <= MaxTimers
  /\ Len(s.enemies) <= maxEnemies
  /\ Len(s.towers) <= MaxTowers
  /\ s.totalKills <= MaxKills

currentPath(s) == MAPS[s.currentMap].path

----------------------------------------------------------------------------
(* Spawner *)

\* the streams of Math.random() values the model draws from: stream p below
\* RandDenom is constantly p / RandDenom, stream RandDenom cycles through
\* 0, 1/RandDenom, 2/RandDenom, ...
RandomStreams == 0 .. RandDenom

Draw(p, i) == IF p < RandDenom THEN p ELSE i % RandDenom

\* A variant of newEnemy that places every enemy of a roster on the first
\* waypoint, kept to show that the roster property below depends on the
\* stagger.
newEnemyStacked(w, path, p, i) ==
  LET typeIndex == Min(w \div 3, Len(enemyTypes) - 1)
      type == enemyTypes[(Draw(p, i) * (typeIndex + 1)) \div RandDenom + 1]
      stats == baseStats[type]
  IN [id |-> <<w, i>>,
      type |-> type,
      x |-> path[1].x,
      y |-> path[1].y,
      health |-> stats.health + w * HealthPerWave,
      maxHealth |-> stats.health + w * HealthPerWave,
      speed |-> stats.speed + w,
      pathIndex |-> 0,
      reward |-> stats.reward + w * RewardPerWave,
      armor |-> stats.armor]

\* A variant of enemyType that rounds wave / 3 up, kept to show that the
\* type-gate property below depends on Math.floor.
enemyTypeCeil(w, r, denom) ==
  LET typeIndex == Min((w + 2) \div 3, Len(enemyTypes) - 1)
  IN enemyTypes[(r * (typeIndex + 1)) \div denom + 1]

\* the type drawn for an enemy of wave w when Math.random() is r / denom
enemyType(w, r, denom) ==
  LET typeIndex == Min(w \div 3, Len(enemyTypes) - 1)
  IN enemyTypes[(r * (typeIndex + 1)) \div denom + 1]

\* the i-th enemy (i from 0) of the roster of wave w, of the given type
makeEnemy(w, path, type, i) ==
  LET stats == baseStats[type]
  IN [id |-> <<w, i>>,
      type |-> type,
      x |-> path[1].x - i * SpawnSpacing * Unit,
      y |-> path[1].y,
      health |-> stats.health + w * HealthPerWave,
      maxHealth |-> stats.health + w * HealthPerWave,
      speed |-> stats.speed + w,
      pathIndex |-> 0,
      reward |-> stats.reward + w * RewardPerWave,
      armor |-> stats.armor]

\* the i-th enemy (i from 0) of the roster of wave w
newEnemy(w, path, p, i) ==
  makeEnemy(w, path, enemyType(w, Draw(p, i), RandDenom), i)

spawnWave(s, p) ==
  LET enemyCount == s.wave * 2 + SpawnBase
  IN [i \in 1 .. enemyCount |-> newEnemy(s.wave, currentPath(s), p, i - 1)]

\* spawnWave of the four-tower component, whose path starts at (0, 200):
\* the roster of wave w
spawnWaveBasic(w) ==
  LET enemyCount == w * 2 + SpawnBaseBasic
  IN [k \in 1 .. enemyCount |->
        [id |-> <<w, k - 1>>,
         x |-> 0 - (k - 1) * SpawnSpacingBasic * Unit,
         y |-> 200 * Unit,
         health |-> HealthBasic + w * HealthPerWave,
         maxHealth |-> HealthBasic + w * HealthPerWave,
         speed |-> Unit + w * 2,
         pathIndex |-> 0,
         reward |-> 10 + w * RewardPerWave]]

----------------------------------------------------------------------------
(* One animation frame: gameLoop *)

\* A variant of moveEnemy that steps towards the next waypoint in the frame
\* in which it reaches one, kept to show that the pathIndex property below
\* depends on the enemy standing still in that frame.
moveEnemyNoHalt(enemy, path) ==
  LET targetPoint == path[enemy.pathIndex + 1]
      dx == targetPoint.x - enemy.x
      dy == targetPoint.y - enemy.y
      distance == Distance(dx, dy)
  IN IF dx * dx + dy * dy < (ArrivalEps * Unit) * (ArrivalEps * Unit)
     THEN IF enemy.pathIndex < Len(path) - 1
          THEN [e |-> [enemy EXCEPT !.pathIndex = enemy.pathIndex + 1,
                                    !.x = enemy.x + enemy.speed],
                leaked |-> FALSE]
          ELSE [e |-> [enemy EXCEPT !.health = 0], leaked |-> TRUE]
     ELSE [e |-> [enemy EXCEPT !.x = enemy.x + (dx * enemy.speed) \div distance,
                               !.y = enemy.y + (dy * enemy.speed) \div distance],
           leaked |-> FALSE]

\* the movement updater's map callback; leaked marks the setLives call
moveEnemy(enemy, path) ==
  LET targetPoint == path[enemy.pathIndex + 1]
      dx == targetPoint.x - enemy.x
      dy == targetPoint.y - enemy.y
      distance == Distance(dx, dy)
  IN IF dx * dx + dy * dy < (ArrivalEps * Unit) * (ArrivalEps * Unit)
     THEN IF enemy.pathIndex < Len(path) - 1
          THEN [e |-> [enemy EXCEPT !.pathIndex = enemy.pathIndex + 1],
                leaked |-> FALSE]
          ELSE [e |-> [enemy EXCEPT !.health = 0], leaked |-> TRUE]
     ELSE [e |-> [enemy EXCEPT !.x = enemy.x + (dx * enemy.speed) \div distance,
                               !.y = enemy.y + (dy * enemy.speed) \div distance],
           leaked |-> FALSE]

Alive(e) == e.health > 0

RECURSIVE SumReward(_)
SumReward(es) ==
  IF es = <<>> THEN 0 ELSE Head(es).reward + SumReward(Tail(es))

\* Two variants of loseLives, kept to show that the life-conservation and
\* defeat properties below depend on it: the first takes two lives per
\* enemy, the second leaves isPlaying set when the lives run out.
loseLivesTwice(s, n) ==
  IF n = 0 THEN s
  ELSE LET newLives == s.lives - 2 * n
       IN IF newLives <= 0
          THEN [s EXCEPT !.lives = newLives, !.gameOver = TRUE,
                         !.isPlaying = FALSE]
          ELSE [s EXCEPT !.lives = newLives]

loseLivesStillPlaying(s, n) ==
  IF n = 0 THEN s
  ELSE LET newLives == s.lives - n
       IN IF newLives <= 0
          THEN [s EXCEPT !.lives = newLives, !.gameOver = TRUE]
          ELSE [s EXCEPT !.lives = newLives]

\* setLives(prev => ...) called once per enemy at the end of the path
loseLives(s, n) ==
  IF n = 0 THEN s
  ELSE LET newLives == s.lives - n
       IN IF newLives <= 0
          THEN [s EXCEPT !.lives = newLives, !.gameOver = TRUE,
                         !.isPlaying = FALSE]
          ELSE [s EXCEPT !.lives = newLives]

\* A variant of moveEnemies that pays the reward of an enemy at the end of
\* the path and counts it as a kill, kept to show that the leak property
\* below depends on the end-of-path branch touching lives only.
moveEnemiesCreditsLeak(s) ==
  LET path == currentPath(s)
      moved == [i \in 1 .. Len(s.enemies) |-> moveEnemy(s.enemies[i], path)]
      kept == SelectSeq([i \in 1 .. Len(moved) |-> moved[i].e], Alive)
      leaked == {i \in 1 .. Len(moved) : moved[i].leaked}
      n == Cardinality(leaked)
      Leaked(e) == \E i \in leaked : moved[i].e.id = e.id
  IN loseLives([s EXCEPT !.enemies = kept,
                         !.gold = s.gold
                                    + SumReward(SelectSeq(s.enemies, Leaked)),
                         !.killCount = s.killCount + n,
                         !.totalKills = s.totalKills + n], n)

moveEnemies(s) ==
  LET path == currentPath(s)
      moved == [i \in 1 .. Len(s.enemies) |-> moveEnemy(s.enemies[i], path)]
      kept == SelectSeq([i \in 1 .. Len(moved) |-> moved[i].e], Alive)
      n == Cardinality({i \in 1 .. Len(moved) : moved[i].leaked})
  IN loseLives([s EXCEPT !.enemies = kept], n)

InRange(tower, enemy) ==
  LET dx == enemy.x - tower.x
      dy == enemy.y - tower.y
  IN dx * dx + dy * dy <= (tower.range * Unit) * (tower.range * Unit)

\* A variant of effectiveDamage without the floor, kept to show that the
\* damage property below depends on it.
effectiveDamageNoFloor(tower, e) == tower.damage - e.armor

effectiveDamage(tower, e) == Max(tower.damage - e.armor, DamageFloor)

\* A variant of attack without the filter of the dead, kept to show that
\* the health property below depends on it.
attackKeepsDead(s, tower) ==
  LET InRangeOfTower(e) == InRange(tower, e)
      enemiesInRange == SelectSeq(s.enemies, InRangeOfTower)
  IN IF enemiesInRange = <<>> THEN s
     ELSE LET target == enemiesInRange[1]
              hit == [i \in 1 .. Len(s.enemies) |->
                        IF s.enemies[i].id = target.id
                        THEN [s.enemies[i] EXCEPT
                                !.health = s.enemies[i].health
                                           - effectiveDamage(tower, s.enemies[i])]
                        ELSE s.enemies[i]]
              Dead(e) == e.health <= 0
              killed == SelectSeq(hit, Dead)
          IN [s EXCEPT !.enemies = hit,
                       !.gold = s.gold + SumReward(killed),
                       !.xpEarned = s.xpEarned + KillXp * Len(killed),
                       !.killCount = s.killCount + Len(killed),
                       !.totalKills = s.totalKills + Len(killed)]

\* the setEnemies updater of one firing tower, with the counters it credits
attack(s, tower) ==
  LET InRangeOfTower(e) == InRange(tower, e)
      enemiesInRange == SelectSeq(s.enemies, InRangeOfTower)
  IN IF enemiesInRange = <<>> THEN s
     ELSE LET target == enemiesInRange[1]
              hit == [i \in 1 .. Len(s.enemies) |->
                        IF s.enemies[i].id = target.id
                        THEN [s.enemies[i] EXCEPT
                                !.health = s.enemies[i].health
                                           - effectiveDamage(tower, s.enemies[i])]
                        ELSE s.enemies[i]]
              Dead(e) == e.health <= 0
              killed == SelectSeq(hit, Dead)
          IN [s EXCEPT !.enemies = SelectSeq(hit, Alive),
                       !.gold = s.gold + SumReward(killed),
                       !.xpEarned = s.xpEarned + KillXp * Len(killed),
                       !.killCount = s.killCount + Len(killed),
                       !.totalKills = s.totalKills + Len(killed)]

\* A variant of towerAttacks that reloads only a tower that found a target,
\* kept to show that the fire-rate property below depends on the reload of
\* a tower that fired at nobody.
RECURSIVE towerAttacksReloadOnHit(_, _, _)
towerAttacksReloadOnHit(s, t, k) ==
  IF k > Len(s.towers) THEN s
  ELSE LET tower == s.towers[k]
           InRangeOfTower(e) == InRange(tower, e)
       IN IF t - tower.lastFired < tower.fireRate
          THEN towerAttacksReloadOnHit(s, t, k + 1)
          ELSE IF SelectSeq(s.enemies, InRangeOfTower) = <<>>
          THEN towerAttacksReloadOnHit(s, t, k + 1)
          ELSE towerAttacksReloadOnHit(
                 [attack(s, tower) EXCEPT !.towers[k].lastFired = t], t, k + 1)

\* A variant of towerAttacks in which every tower of a frame aims at the
\* enemies as they were before the frame's first shot, kept to show that the
\* kill-credit property below depends on each tower seeing the earlier
\* towers' kills.
RECURSIVE towerAttacksSnapshot(_, _, _)
towerAttacksSnapshot(s, t, k) ==
  IF k > Len(s.towers) THEN s
  ELSE LET tower == s.towers[k]
       IN IF t - tower.lastFired < tower.fireRate
          THEN towerAttacksSnapshot(s, t, k + 1)
          ELSE LET rest == towerAttacksSnapshot(s, t, k + 1)
                   mine == attack(s, tower)
                   Left(e) == \E i \in 1 .. Len(mine.enemies) :
                                mine.enemies[i].id = e.id
               IN [rest EXCEPT
                     !.towers[k].lastFired = t,
                     !.enemies = SelectSeq(rest.enemies, Left),
                     !.gold = rest.gold + (mine.gold - s.gold),
                     !.xpEarned = rest.xpEarned + (mine.xpEarned - s.xpEarned),
                     !.killCount = rest.killCount + (mine.killCount - s.killCount),
                     !.totalKills = rest.totalKills
                                      + (mine.totalKills - s.totalKills)]

\* A variant of towerAttacks in which a tower gains a level with every
\* shot, kept to show that the tower-immutability property below depends on
\* the updater copying every field but lastFired.
RECURSIVE towerAttacksLevelUp(_, _, _)
towerAttacksLevelUp(s, t, k) ==
  IF k > Len(s.towers) THEN s
  ELSE LET tower == s.towers[k]
       IN IF t - tower.lastFired < tower.fireRate
          THEN towerAttacksLevelUp(s, t, k + 1)
          ELSE towerAttacksLevelUp(
                 [attack(s, tower) EXCEPT !.towers[k].lastFired = t,
                                          !.towers[k].level = @ + 1],
                 t, k + 1)

\* the setTowers updater: towers k .. Len(towers) in order
RECURSIVE towerAttacks(_, _, _)
towerAttacks(s, t, k) ==
  IF k > Len(s.towers) THEN s
  ELSE LET tower == s.towers[k]
       IN IF t - tower.lastFired < tower.fireRate
          THEN towerAttacks(s, t, k + 1)
          ELSE towerAttacks(
                 [attack(s, tower) EXCEPT !.towers[k].lastFired = t], t, k + 1)

\* A variant of gameLoop in which the towers fire before the enemies move,
\* kept to show that the ordering property below depends on the order.
gameLoopAttackFirst(s) ==
  LET t == s.now + FrameMs
  IN moveEnemies(towerAttacks([s EXCEPT !.now = t], t, 1))

gameLoop(s) ==
  LET t == s.now + FrameMs
  IN towerAttacks(moveEnemies([s EXCEPT !.now = t]), t, 1)


----------------------------------------------------------------------------
(* Victory *)

\* A variant of handleVictory whose insert is not guarded by the wallet
\* address, kept to show that the no-wallet property below depends on the
\* guard.
handleVictoryAnyWallet(s) ==
  LET earnedXP == s.xpEarned + VictoryBonus + s.wave * PerWaveBonus
      currentIndex == IndexOf(MapKeys, s.currentMap, 1)
      nextMap == MapKeys[currentIndex + 1]
      unlocked == IF currentIndex < Len(MapKeys) /\ ~includes(s.unlockedMaps, nextMap)
                  THEN Append(s.unlockedMaps, nextMap)
                  ELSE s.unlockedMaps
      row == [result |-> "win", wave |-> s.wave, gold |-> s.gold,
              kills |-> s.totalKills, xp |-> earnedXP]
  IN [s EXCEPT !.isPlaying = FALSE,
               !.gameOver = TRUE,
               !.victory = TRUE,
               !.xpEarned = earnedXP,
               !.unlockedMaps = unlocked,
               !.recorded = IF ~s.insertThrows
                            THEN Append(s.recorded, row)
                            ELSE s.recorded,
               !.insertCalls = s.insertCalls + 1]

\* A variant of handleVictory whose bonus does not depend on the wave, kept
\* to show that the experience property below depends on the per-wave term.
handleVictoryFlatBonus(s) ==
  LET earnedXP == s.xpEarned + VictoryBonus
      currentIndex == IndexOf(MapKeys, s.currentMap, 1)
      nextMap == MapKeys[currentIndex + 1]
      unlocked == IF currentIndex < Len(MapKeys) /\ ~includes(s.unlockedMaps, nextMap)
                  THEN Append(s.unlockedMaps, nextMap)
                  ELSE s.unlockedMaps
      row == [result |-> "win", wave |-> s.wave, gold |-> s.gold,
              kills |-> s.totalKills, xp |-> earnedXP]
  IN [s EXCEPT !.isPlaying = FALSE,
               !.gameOver = TRUE,
               !.victory = TRUE,
               !.xpEarned = earnedXP,
               !.unlockedMaps = unlocked,
               !.recorded = IF s.address # "none" /\ ~s.insertThrows
                            THEN Append(s.recorded, row)
                            ELSE s.recorded,
               !.insertCalls = IF s.address # "none"
                               THEN s.insertCalls + 1
                               ELSE s.insertCalls]

\* A variant of handleVictory that unlocks the next map without looking at
\* the list, kept to show that the unlock property below depends on the test.
handleVictoryAlwaysUnlocks(s) ==
  LET earnedXP == s.xpEarned + VictoryBonus + s.wave * PerWaveBonus
      currentIndex == IndexOf(MapKeys, s.currentMap, 1)
      nextMap == MapKeys[currentIndex + 1]
      unlocked == IF currentIndex < Len(MapKeys)
                  THEN Append(s.unlockedMaps, nextMap)
                  ELSE s.unlockedMaps
      row == [result |-> "win", wave |-> s.wave, gold |-> s.gold,
              kills |-> s.totalKills, xp |-> earnedXP]
  IN [s EXCEPT !.isPlaying = FALSE,
               !.gameOver = TRUE,
               !.victory = TRUE,
               !.xpEarned = earnedXP,
               !.unlockedMaps = unlocked,
               !.recorded = IF s.address # "none" /\ ~s.insertThrows
                            THEN Append(s.recorded, row)
                            ELSE s.recorded,
               !.insertCalls = IF s.address # "none"
                               THEN s.insertCalls + 1
                               ELSE s.insertCalls]

\* A variant of handleVictory in which a rejected insert loses the bonus and
\* the unlock, kept to show that the recorder property below depends on the
\* setters running before the insert.
handleVictoryInsertFirst(s) ==
  LET earnedXP == s.xpEarned + VictoryBonus + s.wave * PerWaveBonus
      currentIndex == IndexOf(MapKeys, s.currentMap, 1)
      nextMap == MapKeys[currentIndex + 1]
      unlocked == IF currentIndex < Len(MapKeys) /\ ~includes(s.unlockedMaps, nextMap)
                  THEN Append(s.unlockedMaps, nextMap)
                  ELSE s.unlockedMaps
      row == [result |-> "win", wave |-> s.wave, gold |-> s.gold,
              kills |-> s.totalKills, xp |-> earnedXP]
      thrown == s.address # "none" /\ s.insertThrows
  IN [s EXCEPT !.isPlaying = FALSE,
               !.gameOver = TRUE,
               !.victory = TRUE,
               !.xpEarned = IF thrown THEN s.xpEarned ELSE earnedXP,
               !.unlockedMaps = IF thrown THEN s.unlockedMaps ELSE unlocked,
               !.recorded = IF s.address # "none" /\ ~s.insertThrows
                            THEN Append(s.recorded, row)
                            ELSE s.recorded,
               !.insertCalls = IF s.address # "none"
                               THEN s.insertCalls + 1
                               ELSE s.insertCalls]

\* the synchronous part of handleVictory and its insert into game_sessions;
\* s is the render whose closure the call runs in
handleVictory(s) ==
  LET earnedXP == s.xpEarned + VictoryBonus + s.wave * PerWaveBonus
      currentIndex == IndexOf(MapKeys, s.currentMap, 1)
      nextMap == MapKeys[currentIndex + 1]
      unlocked == IF currentIndex < Len(MapKeys) /\ ~includes(s.unlockedMaps, nextMap)
                  THEN Append(s.unlockedMaps, nextMap)
                  ELSE s.unlockedMaps
      row == [result |-> "win", wave |-> s.wave, gold |-> s.gold,
              kills |-> s.totalKills, xp |-> earnedXP]
  IN [s EXCEPT !.isPlaying = FALSE,
               !.gameOver = TRUE,
               !.victory = TRUE,
               !.xpEarned = earnedXP,
               !.unlockedMaps = unlocked,
               !.recorded = IF s.address # "none" /\ ~s.insertThrows
                            THEN Append(s.recorded, row)
                            ELSE s.recorded,
               !.insertCalls = IF s.address # "none"
                               THEN s.insertCalls + 1
                               ELSE s.insertCalls]

----------------------------------------------------------------------------
(* Effects of a commit.  prev is the previous render, cur the render being *)
(* committed; enemiesSet tells whether the event stored a new enemies      *)
(* array.                                                                  *)

\* wave-completion effect, deps [enemies, isPlaying, wave, waves]
waveCompletionEffect(prev, cur, enemiesSet) ==
  IF /\ \/ enemiesSet
        \/ prev.isPlaying # cur.isPlaying
        \/ prev.wave # cur.wave
        \/ MAPS[prev.currentMap].waves # MAPS[cur.currentMap].waves
     /\ cur.isPlaying /\ Len(cur.enemies) = 0 /\ cur.wave > 0
  THEN IF cur.wave >= MAPS[cur.currentMap].waves
       THEN handleVictory(cur)
       ELSE [cur EXCEPT !.waveTimers = cur.waveTimers + 1]
  ELSE cur

\* spawn effect, deps [wave, spawnWave, isPlaying]; it runs in the same
\* commit as the wave-completion effect, on the same render cur, and its
\* setEnemies(prev => [...prev, ...newEnemies]) is applied afterwards
spawnEffect(prev, cur, s, p) ==
  IF /\ \/ prev.wave # cur.wave
        \/ currentPath(prev) # currentPath(cur)
        \/ prev.isPlaying # cur.isPlaying
     /\ cur.wave > 0 /\ cur.isPlaying
  THEN [s EXCEPT !.enemies = s.enemies \o spawnWave(cur, p)]
  ELSE s

\* A variant of gameLoopEffect whose cleanup does not cancel the pending
\* frame, kept to show that the property of idle ticks below depends on it.
gameLoopEffectNoCancel(prev, cur, raf) ==
  IF \/ prev.isPlaying # cur.isPlaying
     \/ prev.gameOver # cur.gameOver
     \/ currentPath(prev) # currentPath(cur)
  THEN IF ~cur.isPlaying \/ cur.gameOver THEN raf ELSE raf + 1
  ELSE raf

\* game-loop effect, deps [isPlaying, gameOver, currentPath]: the cleanup
\* cancels the frame held by gameLoopRef, then the effect requests one
gameLoopEffect(prev, cur, raf) ==
  IF \/ prev.isPlaying # cur.isPlaying
     \/ prev.gameOver # cur.gameOver
     \/ currentPath(prev) # currentPath(cur)
  THEN LET cancelled == Max(raf - 1, 0)
       IN IF ~cur.isPlaying \/ cur.gameOver THEN cancelled ELSE cancelled + 1
  ELSE raf

\* The commit of render cur after render prev, and the commit of the render
\* the effects' own updates lead to.  In that second commit the wave-
\* completion effect finds either isPlaying false (after handleVictory) or
\* a spawned roster, and the spawn effect finds isPlaying false or its deps
\* unchanged: only the game-loop effect can act.
commit(prev, cur, enemiesSet, p) ==
  LET s1 == waveCompletionEffect(prev, cur, enemiesSet)
      s2 == spawnEffect(prev, cur, s1, p)
      raf1 == gameLoopEffect(prev, cur, cur.rafPending)
      raf2 == gameLoopEffect(cur, s2, raf1)
  IN [s2 EXCEPT !.rafPending = raf2]

----------------------------------------------------------------------------
(* Handlers *)

startGame(s) == [s EXCEPT !.isPlaying = TRUE, !.wave = 1]

\* A variant of resetGame that leaves lives alone, kept to show that the
\* reset property below depends on setLives(20).
resetGameKeepsLives(s) ==
  [s EXCEPT !.towers = <<>>,
            !.enemies = <<>>,
            !.gold = InitialGold,
            !.wave = 0,
            !.isPlaying = FALSE,
            !.gameOver = FALSE,
            !.victory = FALSE,
            !.xpEarned = 0,
            !.killCount = 0,
            !.totalKills = 0]

resetGame(s) ==
  [s EXCEPT !.towers = <<>>,
            !.enemies = <<>>,
            !.gold = InitialGold,
            !.lives = InitialLives,
            !.wave = 0,
            !.isPlaying = FALSE,
            !.gameOver = FALSE,
            !.victory = FALSE,
            !.xpEarned = 0,
            !.killCount = 0,
            !.totalKills = 0]

TooCloseToPath(path, x, y) ==
  \E k \in 1 .. Len(path) :
    LET dx == path[k].x - x
        dy == path[k].y - y
    IN dx * dx + dy * dy
         < (MinDistanceFromPath * Unit) * (MinDistanceFromPath * Unit)

\* A variant of placeTower that disarms placement mode when it rejects the
\* click, kept to show that the rejection property below depends on the
\* early returns.
placeTowerDisarms(s, x, y) ==
  IF s.selectedTower = "null" \/ ~s.placementMode THEN s
  ELSE LET towerData == TOWER_TYPES[s.selectedTower]
       IN IF s.gold < towerData.cost \/ TooCloseToPath(currentPath(s), x, y)
          THEN [s EXCEPT !.placementMode = FALSE]
          ELSE [s EXCEPT !.towers =
                           Append(s.towers,
                                  [type |-> s.selectedTower,
                                   x |-> x, y |-> y, level |-> 1,
                                   damage |-> towerData.damage,
                                   range |-> towerData.range,
                                   fireRate |-> towerData.fireRate,
                                   lastFired |-> 0]),
                         !.gold = s.gold - towerData.cost,
                         !.placementMode = FALSE]

\* A variant of placeTower that leaves placement mode armed after a
\* placement, kept to show that the placement property below depends on
\* setPlacementMode(false).
placeTowerStaysArmed(s, x, y) ==
  IF s.selectedTower = "null" \/ ~s.placementMode THEN s
  ELSE LET towerData == TOWER_TYPES[s.selectedTower]
       IN IF s.gold < towerData.cost \/ TooCloseToPath(currentPath(s), x, y)
          THEN s
          ELSE [s EXCEPT !.towers =
                           Append(s.towers,
                                  [type |-> s.selectedTower,
                                   x |-> x, y |-> y, level |-> 1,
                                   damage |-> towerData.damage,
                                   range |-> towerData.range,
                                   fireRate |-> towerData.fireRate,
                                   lastFired |-> 0]),
                         !.gold = s.gold - towerData.cost]

placeTower(s, x, y) ==
  IF s.selectedTower = "null" \/ ~s.placementMode THEN s
  ELSE LET towerData == TOWER_TYPES[s.selectedTower]
       IN IF s.gold < towerData.cost THEN s
          ELSE IF TooCloseToPath(currentPath(s), x, y) THEN s
          ELSE LET newTower == [type |-> s.selectedTower,
                                x |-> x, y |-> y, level |-> 1,
                                damage |-> towerData.damage,
                                range |-> towerData.range,
                                fireRate |-> towerData.fireRate,
                                lastFired |-> 0]
               IN [s EXCEPT !.towers = Append(s.towers, newTower),
                            !.gold = s.gold - towerData.cost,
                            !.placementMode = FALSE]

\* A variant of unlockTower that charges the list price instead of
\* UnlockFactor times it, kept to show that the gold-conservation property
\* below depends on the fee.
unlockTowerListPrice(s, towerType) ==
  LET cost == TOWER_TYPES[towerType].cost
  IN IF s.gold >= cost
     THEN [s EXCEPT !.gold = s.gold - cost,
                    !.unlockedTowers = s.unlockedTowers \cup {towerType}]
     ELSE s

\* A variant of unlockTower without the gold check, kept to show that the
\* unlock property below depends on it.
unlockTowerOnCredit(s, towerType) ==
  LET cost == TOWER_TYPES[towerType].cost * UnlockFactor
  IN [s EXCEPT !.gold = s.gold - cost,
               !.unlockedTowers = s.unlockedTowers \cup {towerType}]

unlockTower(s, towerType) ==
  LET cost == TOWER_TYPES[towerType].cost * UnlockFactor
  IN IF s.gold >= cost
     THEN [s EXCEPT !.gold = s.gold - cost,
                    !.unlockedTowers = s.unlockedTowers \cup {towerType}]
     ELSE s

\* one frame and its commit: the callback is consumed, runs gameLoop and
\* requests the next frame before React renders
frame(s) ==
  commit(s, gameLoop(s), TRUE, 0)

\* the loop has stopped, or the field is empty
Settled(s) == s.rafPending = 0 \/ Len(s.enemies) = 0

\* up to k consecutive frames with no other event in between; the run ends
\* with the frame that stops the loop or leaves no enemy on the field.  The
\* run is split in halves, which composes the same frames in the same order.
RECURSIVE frames(_, _)
frames(s, k) ==
  IF k <= 1 THEN frame(s)
  ELSE LET s1 == frames(s, k \div 2)
       IN IF Settled(s1) THEN s1 ELSE frames(s1, k - k \div 2)

----------------------------------------------------------------------------
(* ChessGame: the board, the moves and the AI-turn timer                   *)
(*                                                                         *)
(* The board of the model has BoardRows rows and BoardCols columns and     *)
(* starts with a king and a rook on each side's back row.                  *)

Empty == [type |-> "none", color |-> "none"]

NoSquare == [row |-> -1, col |-> -1]

Rows == 0 .. BoardRows - 1

Cols == 0 .. BoardCols - 1

Squares == {[row |-> r, col |-> c] : r \in Rows, c \in Cols}

initializeBoard ==
  [r \in Rows |->
     [c \in Cols |->
        IF r = 0 /\ c = 0 THEN [type |-> "king", color |-> "black"]
        ELSE IF r = 0 /\ c = BoardCols - 1
        THEN [type |-> "rook", color |-> "black"]
        ELSE IF r = BoardRows - 1 /\ c = BoardCols - 1
        THEN [type |-> "king", color |-> "white"]
        ELSE IF r = BoardRows - 1 /\ c = 0
        THEN [type |-> "rook", color |-> "white"]
        ELSE Empty]]

isValidMove(b, from, to, piece) ==
  LET dx == Abs(to.col - from.col)
      dy == Abs(to.row - from.row)
      targetPiece == b[to.row][to.col]
  IN IF targetPiece # Empty /\ targetPiece.color = piece.color THEN FALSE
     ELSE CASE piece.type = "pawn" ->
                 LET direction == IF piece.color = "white" THEN -1 ELSE 1
                     startRow == IF piece.color = "white"
                                 THEN BoardRows - 2 ELSE 1
                 IN \/ /\ to.col = from.col /\ targetPiece = Empty
                       /\ \/ to.row = from.row + direction
                          \/ /\ from.row = startRow
                             /\ to.row = from.row + 2 * direction
                             /\ b[from.row + direction][from.col] = Empty
                    \/ /\ dx = 1 /\ to.row = from.row + direction
                       /\ targetPiece # Empty
            [] piece.type = "rook" -> dx = 0 \/ dy = 0
            [] piece.type = "bishop" -> dx = dy
            [] piece.type = "queen" -> dx = dy \/ dx = 0 \/ dy = 0
            [] piece.type = "king" -> dx <= 1 /\ dy <= 1
            [] piece.type = "knight" ->
                 (dx = 2 /\ dy = 1) \/ (dx = 1 /\ dy = 2)
            [] OTHER -> FALSE

\* the squares a piece on from can move to
Targets(b, from) ==
  {to \in Squares : isValidMove(b, from, to, b[from.row][from.col])}

\* getAIMove: the black pieces are shuffled, and the move is the first valid
\* target, rows then columns ascending, of the first piece that has one; the
\* shuffle can put any piece first.  The result is the set of moves the
\* function can return, empty for null.
getAIMove(b) ==
  {[from |-> from,
    to |-> CHOOSE to \in Targets(b, from) :
             \A o \in Targets(b, from) :
               to.row < o.row \/ (to.row = o.row /\ to.col <= o.col)] :
     from \in {sq \in Squares : /\ b[sq.row][sq.col].color = "black"
                                /\ Targets(b, sq) # {}}}

\* the state of ChessGame as one record
ChessSt ==
  [board |-> board, selectedSquare |-> selectedSquare,
   validMoves |-> validMoves, isPlayerTurn |-> isPlayerTurn,
   chessOver |-> chessOver, winner |-> winner, moveCount |-> moveCount,
   capturedPieces |-> capturedPieces, aiTimers |-> aiTimers]

ChessApply(c) ==
  /\ board' = c.board
  /\ selectedSquare' = c.selectedSquare
  /\ validMoves' = c.validMoves
  /\ isPlayerTurn' = c.isPlayerTurn
  /\ chessOver' = c.chessOver
  /\ winner' = c.winner
  /\ moveCount' = c.moveCount
  /\ capturedPieces' = c.capturedPieces
  /\ aiTimers' = c.aiTimers
  /\ UNCHANGED towerVars

ChessInit ==
  /\ board = initializeBoard
  /\ selectedSquare = NoSquare
  /\ validMoves = {}
  /\ isPlayerTurn = TRUE
  /\ chessOver = FALSE
  /\ winner = "none"
  /\ moveCount = 0
  /\ capturedPieces = [white |-> <<>>, black |-> <<>>]
  /\ aiTimers = <<>>

\* endGame up to its first await: the experience and the saved session are
\* not part of the model
endGame(c, gameWinner) ==
  [c EXCEPT !.chessOver = TRUE, !.winner = gameWinner]

\* makeMove of the render whose board is b
makeMove(c, b, from, to, color) ==
  LET piece == b[from.row][from.col]
      capturedPiece == b[to.row][to.col]
      c1 == IF capturedPiece # Empty
            THEN [c EXCEPT !.capturedPieces[color] = Append(@, capturedPiece)]
            ELSE c
  IN IF capturedPiece # Empty /\ capturedPiece.type = "king"
     THEN endGame(c1, IF color = "white" THEN "player" ELSE "ai")
     ELSE [c1 EXCEPT !.board = [b EXCEPT ![to.row][to.col] = piece,
                                         ![from.row][from.col] = Empty],
                     !.moveCount = @ + 1,
                     !.isPlayerTurn = (color # "white"),
                     !.selectedSquare = NoSquare]

handleSquareClick(c, row, col) ==
  IF ~c.isPlayerTurn \/ c.chessOver THEN c
  ELSE LET piece == c.board[row][col]
           sq == [row |-> row, col |-> col]
       IN IF c.selectedSquare = NoSquare /\ piece # Empty
               /\ piece.color = "white"
          THEN [c EXCEPT !.selectedSquare = sq]
          ELSE IF c.selectedSquare # NoSquare /\ sq \in c.validMoves
          THEN makeMove(c, c.board, c.selectedSquare, sq, "white")
          ELSE IF piece # Empty /\ piece.color = "white"
          THEN [c EXCEPT !.selectedSquare = sq]
          ELSE [c EXCEPT !.selectedSquare = NoSquare]

resetGameChess(c) ==
  [c EXCEPT !.board = initializeBoard,
            !.selectedSquare = NoSquare,
            !.validMoves = {},
            !.isPlayerTurn = TRUE,
            !.chessOver = FALSE,
            !.winner = "none",
            !.moveCount = 0,
            !.capturedPieces = [white |-> <<>>, black |-> <<>>]]

\* valid-moves effect, deps [selectedSquare, board]
validMovesEffect(prev, cur, boardSet) ==
  IF boardSet \/ prev.selectedSquare # cur.selectedSquare
  THEN IF cur.selectedSquare = NoSquare
       THEN {}
       ELSE LET piece ==
                  cur.board[cur.selectedSquare.row][cur.selectedSquare.col]
            IN IF piece = Empty \/ piece.color # "white"
               THEN {}
               ELSE Targets(cur.board, cur.selectedSquare)
  ELSE cur.validMoves

\* A variant of aiTurnEffect whose cleanup does not clear the timeout, kept
\* to show that the turn property below depends on clearTimeout.
aiTurnEffectNoClear(prev, cur, boardSet) ==
  IF \/ boardSet
     \/ prev.isPlayerTurn # cur.isPlayerTurn
     \/ prev.chessOver # cur.chessOver
  THEN IF cur.isPlayerTurn \/ cur.chessOver
       THEN cur.aiTimers
       ELSE Append(cur.aiTimers, cur.board)
  ELSE cur.aiTimers

\* AI-turn effect, deps [isPlayerTurn, gameOver, board]: the cleanup clears
\* the timeout of the previous run, then the effect schedules one with the
\* board of this render
aiTurnEffect(prev, cur, boardSet) ==
  IF \/ boardSet
     \/ prev.isPlayerTurn # cur.isPlayerTurn
     \/ prev.chessOver # cur.chessOver
  THEN LET cleared == IF cur.aiTimers = <<>> THEN <<>>
                      ELSE SubSeq(cur.aiTimers, 1, Len(cur.aiTimers) - 1)
       IN IF cur.isPlayerTurn \/ cur.chessOver
          THEN cleared
          ELSE Append(cleared, cur.board)
  ELSE cur.aiTimers

\* the commit of render cur after render prev; boardSet tells whether the
\* event stored a new board
chessCommit(prev, cur, boardSet) ==
  [cur EXCEPT !.validMoves = validMovesEffect(prev, cur, boardSet),
              !.aiTimers = aiTurnEffect(prev, cur, boardSet)]

\* a click on a square of the board
SquareClick ==
  \E sq \in Squares :
    \E c \in {handleSquareClick(ChessSt, sq.row, sq.col)} :
      /\ c.moveCount <= MaxMoves
      /\ ChessApply(chessCommit(ChessSt, c, c.board # board))

\* the callback of a pending timeout of the AI-turn effect
AiTimerFires ==
  \E k \in 1 .. Len(aiTimers) :
    LET b == aiTimers[k]
        c0 == [ChessSt EXCEPT
                 !.aiTimers = SubSeq(aiTimers, 1, k - 1)
                                \o SubSeq(aiTimers, k + 1, Len(aiTimers))]
    IN IF getAIMove(b) = {}
       THEN ChessApply(chessCommit(ChessSt, endGame(c0, "player"), FALSE))
       ELSE \E move \in getAIMove(b) :
              \E c \in {makeMove(c0, b, move.from, move.to, "black")} :
                /\ c.moveCount <= MaxMoves
                /\ ChessApply(chessCommit(ChessSt, c, c.board # board))

\* "New Game", and a difficulty button, which resets as well
ChessReset ==
  ChessApply(chessCommit(ChessSt, resetGameChess(ChessSt), TRUE))

----------------------------------------------------------------------------
(* Events *)

\* what the player clicks and what the environment draws
ClickTowers == {"cannon", "barracks"}

ClickPoints ==
  {[x |-> 30 * Unit, y |-> 150 * Unit],     \* beside the path
   [x |-> 0, y |-> 180 * Unit]}             \* on a waypoint

Init ==
  /\ towers = <<>>
  /\ enemies = <<>>
  /\ gold = InitialGold
  /\ lives = InitialLives
  /\ wave = 0
  /\ isPlaying = FALSE
  /\ gameOver = FALSE
  /\ victory = FALSE
  /\ selectedTower = "archer"
  /\ currentMap = "greenlands"
  /\ xpEarned = 0
  /\ unlockedTowers = {"archer", "cannon"}
  /\ unlockedMaps = <<"greenlands">>
  /\ placementMode = FALSE
  /\ killCount = 0
  /\ totalKills = 0
  /\ address \in {"none", "0xA11CE"}
  /\ waveTimers = 0
  /\ rafPending = 0
  /\ now = Epoch
  /\ recorded = <<>>
  /\ insertThrows = FALSE
  /\ insertCalls = 0
  /\ ChessInit

\* the state after construction with a wallet connected, the backend
\* accepting or rejecting inserts
InitRecorder ==
  /\ towers = <<>>
  /\ enemies = <<>>
  /\ gold = InitialGold
  /\ lives = InitialLives
  /\ wave = 0
  /\ isPlaying = FALSE
  /\ gameOver = FALSE
  /\ victory = FALSE
  /\ selectedTower = "archer"
  /\ currentMap = "greenlands"
  /\ xpEarned = 0
  /\ unlockedTowers = {"archer", "cannon"}
  /\ unlockedMaps = <<"greenlands">>
  /\ placementMode = FALSE
  /\ killCount = 0
  /\ totalKills = 0
  /\ address = "0xA11CE"
  /\ waveTimers = 0
  /\ rafPending = 0
  /\ now = Epoch
  /\ recorded = <<>>
  /\ insertThrows \in BOOLEAN
  /\ insertCalls = 0
  /\ ChessInit

\* "Start Battle", rendered when !isPlaying && !gameOver && wave === 0
StartGame(maxEnemies) ==
  /\ ~isPlaying /\ ~gameOver /\ wave = 0
  /\ \E p \in RandomStreams :
       LET s == commit(St, startGame(St), FALSE, p)
       IN Fits(s, maxEnemies) /\ Apply(s)

\* "Pause", rendered when isPlaying
Pause ==
  /\ isPlaying
  /\ Apply(commit(St, [St EXCEPT !.isPlaying = FALSE], FALSE, 0))

\* "Resume", rendered when !isPlaying && wave > 0 && !gameOver
Resume(maxEnemies) ==
  /\ ~isPlaying /\ wave > 0 /\ ~gameOver
  /\ \E p \in RandomStreams :
       LET s == commit(St, [St EXCEPT !.isPlaying = TRUE], FALSE, p)
       IN Fits(s, maxEnemies) /\ Apply(s)

\* "Reset" and "Play Again".  The clock is re-based: after a reset no tower
\* holds a timestamp and no row belongs to the new session.
ResetGame ==
  \E s \in {commit(St, resetGame(St), TRUE, 0)} :
    Apply([s EXCEPT !.now = Epoch, !.recorded = <<>>,
                    !.insertCalls = 0])

\* a map button, disabled unless the map is unlocked
SelectMap ==
  \E m \in {unlockedMaps[i] : i \in DOMAIN unlockedMaps} :
    LET s == commit(St, resetGame([St EXCEPT !.currentMap = m]), TRUE, 0)
    IN Apply([s EXCEPT !.now = Epoch, !.recorded = <<>>,
                    !.insertCalls = 0])

\* A variant of SelectTower in which a locked tower card arms placement
\* mode as well, kept to show that the property of placed towers below
\* depends on the isUnlocked test.
SelectTowerLocked ==
  \E t \in ClickTowers :
    Apply([St EXCEPT !.selectedTower = t, !.placementMode = TRUE])

\* a tower card
SelectTower ==
  \E t \in ClickTowers :
    /\ t \in unlockedTowers
    /\ Apply([St EXCEPT !.selectedTower = t, !.placementMode = TRUE])

\* the unlock button of a locked tower card
UnlockTower ==
  \E t \in ClickTowers :
    /\ t \notin unlockedTowers
    /\ Apply(unlockTower(St, t))

\* a click on the board, which calls placeTower only in placement mode
PlaceTower(maxEnemies) ==
  /\ placementMode
  /\ \E pt \in ClickPoints :
       LET s == placeTower(St, pt.x, pt.y)
       IN Fits(s, maxEnemies) /\ Apply(s)

\* a click on the board on the path itself, half-way between two waypoints
PathClickPoints ==
  {[x |-> (PathLength \div 2) * Unit, y |-> 180 * Unit]}

PlaceTowerOnPath(maxEnemies) ==
  /\ placementMode
  /\ \E pt \in PathClickPoints :
       LET s == placeTower(St, pt.x, pt.y)
       IN Fits(s, maxEnemies) /\ Apply(s)

\* a click on the board far enough from the path for the shorter ranges to
\* cover only a stretch of it
FarClickPoints ==
  {[x |-> (PathLength \div 2) * Unit, y |-> 125 * Unit]}

PlaceTowerFar(maxEnemies) ==
  /\ placementMode
  /\ \E pt \in FarClickPoints :
       LET s == placeTower(St, pt.x, pt.y)
       IN Fits(s, maxEnemies) /\ Apply(s)

\* an inter-wave timeout fires: setWave(prev => prev + 1)
WaveTimerFires(maxEnemies) ==
  /\ waveTimers > 0
  /\ \E p \in RandomStreams :
       LET s == commit(St, [St EXCEPT !.wave = wave + 1,
                                      !.waveTimers = waveTimers - 1], FALSE, p)
       IN Fits(s, maxEnemies) /\ Apply(s)

\* the browser runs the pending animation-frame callback
Tick(maxEnemies) ==
  /\ rafPending > 0
  /\ \E s \in {frames(St, FramesPerTick)} : Fits(s, maxEnemies) /\ Apply(s)

\* one animation frame and its commit, while at most MaxTimers timeouts
\* are pending
Frame ==
  /\ rafPending > 0
  /\ \E s \in {frame(St)} : s.waveTimers <= MaxTimers /\ Apply(s)

\* A running session at some wave with one tower of any type beside the
\* path of greenlands and the first enemy of a roster at the spawn point,
\* within the range of every tower type.
InitDamage ==
  /\ \E tt \in DOMAIN TOWER_TYPES :
       /\ towers = <<[type |-> tt,
                      x |-> 30 * Unit, y |-> 150 * Unit, level |-> 1,
                      damage |-> TOWER_TYPES[tt].damage,
                      range |-> TOWER_TYPES[tt].range,
                      fireRate |-> TOWER_TYPES[tt].fireRate,
                      lastFired |-> 0]>>
       /\ gold = InitialGold - TOWER_TYPES[tt].cost
       /\ selectedTower = tt
       /\ unlockedTowers = {"archer", "cannon", tt}
  /\ \E w \in 1 .. MaxWaveDamage, p \in RandomStreams :
       /\ wave = w
       /\ enemies = <<newEnemy(w, MAPS["greenlands"].path, p, 0)>>
  /\ lives = InitialLives
  /\ isPlaying = TRUE
  /\ gameOver = FALSE
  /\ victory = FALSE
  /\ currentMap = "greenlands"
  /\ xpEarned = 0
  /\ unlockedMaps = <<"greenlands">>
  /\ placementMode = FALSE
  /\ killCount = 0
  /\ totalKills = 0
  /\ address \in {"none", "0xA11CE"}
  /\ waveTimers = 0
  /\ rafPending = 1
  /\ now = Epoch
  /\ recorded = <<>>
  /\ insertThrows = FALSE
  /\ insertCalls = 0
  /\ ChessInit

\* A running session at some wave with the first enemy of a roster at the
\* spawn point, of a type drawn with Math.random() = r / RandDenomTypes.
InitTypes ==
  /\ \E w \in 1 .. MaxWaveTypes, r \in 0 .. RandDenomTypes - 1 :
       /\ wave = w
       /\ enemies = <<makeEnemy(w, MAPS["greenlands"].path,
                                enemyType(w, r, RandDenomTypes), 0)>>
  /\ isPlaying = TRUE
  /\ rafPending = 1
  /\ towers = <<>>
  /\ gold = InitialGold
  /\ lives = InitialLives
  /\ gameOver = FALSE
  /\ victory = FALSE
  /\ selectedTower = "archer"
  /\ currentMap = "greenlands"
  /\ xpEarned = 0
  /\ unlockedTowers = {"archer", "cannon"}
  /\ unlockedMaps = <<"greenlands">>
  /\ placementMode = FALSE
  /\ killCount = 0
  /\ totalKills = 0
  /\ address \in {"none", "0xA11CE"}
  /\ waveTimers = 0
  /\ now = Epoch
  /\ recorded = <<>>
  /\ insertThrows = FALSE
  /\ insertCalls = 0
  /\ ChessInit

SpecTypes == InitTypes /\ [][Frame]_vars

\* every event, with few enemies on the field
Next ==
  \/ StartGame(MaxEnemies)
  \/ Pause
  \/ Resume(MaxEnemies)
  \/ ResetGame
  \/ SelectMap
  \/ SelectTower
  \/ UnlockTower
  \/ PlaceTower(MaxEnemies)
  \/ WaveTimerFires(MaxEnemies)
  \/ Tick(MaxEnemies)

\* the session's events without pauses, with room for several rosters on
\* the field
NextTowers ==
  \/ StartGame(MaxEnemiesWaves)
  \/ ResetGame
  \/ SelectMap
  \/ SelectTower
  \/ UnlockTower
  \/ PlaceTower(MaxEnemiesWaves)
  \/ WaveTimerFires(MaxEnemiesWaves)
  \/ Tick(MaxEnemiesWaves)

SpecTowers == Init /\ [][NextTowers]_vars

\* the session's events without the building of towers, with room for
\* several rosters on the field
NextWaves ==
  \/ StartGame(MaxEnemiesWaves)
  \/ Pause
  \/ Resume(MaxEnemiesWaves)
  \/ ResetGame
  \/ SelectMap
  \/ WaveTimerFires(MaxEnemiesWaves)
  \/ Tick(MaxEnemiesWaves)

\* the building of towers anywhere on the board during the first wave
NextBoard ==
  \/ StartGame(MaxEnemies)
  \/ ResetGame
  \/ SelectTower
  \/ UnlockTower
  \/ PlaceTower(MaxEnemies)
  \/ PlaceTowerOnPath(MaxEnemies)
  \/ Tick(MaxEnemies)

Spec == Init /\ [][Next]_vars

SpecWaves == Init /\ [][NextWaves]_vars

SpecBoard == Init /\ [][NextBoard]_vars

\* the wave events with a backend that may reject the insert
SpecRecorder == InitRecorder /\ [][NextWaves]_vars

\* the state after the unlocking of barracks in an earlier session and a
\* reset, which restores everything but the unlocked tower types
InitFrames ==
  /\ towers = <<>>
  /\ enemies = <<>>
  /\ gold = InitialGold
  /\ lives = InitialLives
  /\ wave = 0
  /\ isPlaying = FALSE
  /\ gameOver = FALSE
  /\ victory = FALSE
  /\ selectedTower = "archer"
  /\ currentMap = "greenlands"
  /\ xpEarned = 0
  /\ unlockedTowers = {"archer", "cannon", "barracks"}
  /\ unlockedMaps = <<"greenlands">>
  /\ placementMode = FALSE
  /\ killCount = 0
  /\ totalKills = 0
  /\ address \in {"none", "0xA11CE"}
  /\ waveTimers = 0
  /\ rafPending = 0
  /\ now = Epoch
  /\ recorded = <<>>
  /\ insertThrows = FALSE
  /\ insertCalls = 0
  /\ ChessInit

\* the first wave frame by frame, with a tower built at any moment
NextFrames ==
  \/ StartGame(MaxEnemies)
  \/ SelectTower
  \/ PlaceTower(MaxEnemies)
  \/ PlaceTowerFar(MaxEnemies)
  \/ Frame

SpecFrames == InitFrames /\ [][NextFrames]_vars

\* the state after the unlocking of barracks in an earlier session, a reset,
\* a click on a tower card and a click beside the path
InitResume ==
  /\ \E tt \in ClickTowers :
       /\ towers = <<[type |-> tt,
                      x |-> 30 * Unit, y |-> 150 * Unit, level |-> 1,
                      damage |-> TOWER_TYPES[tt].damage,
                      range |-> TOWER_TYPES[tt].range,
                      fireRate |-> TOWER_TYPES[tt].fireRate,
                      lastFired |-> 0]>>
       /\ gold = InitialGold - TOWER_TYPES[tt].cost
       /\ selectedTower = tt
  /\ unlockedTowers = {"archer", "cannon", "barracks"}
  /\ enemies = <<>>
  /\ lives = InitialLives
  /\ wave = 0
  /\ isPlaying = FALSE
  /\ gameOver = FALSE
  /\ victory = FALSE
  /\ currentMap = "greenlands"
  /\ xpEarned = 0
  /\ unlockedMaps = <<"greenlands">>
  /\ placementMode = FALSE
  /\ killCount = 0
  /\ totalKills = 0
  /\ address \in {"none", "0xA11CE"}
  /\ waveTimers = 0
  /\ rafPending = 0
  /\ now = Epoch
  /\ recorded = <<>>
  /\ insertThrows = FALSE
  /\ insertCalls = 0
  /\ ChessInit

\* one animation frame within the first MaxFramesResume frames
FrameWithin ==
  /\ now < Epoch + MaxFramesResume * FrameMs
  /\ Frame

\* a game with one tower that is paused and resumed, frame by frame
NextResume ==
  \/ StartGame(MaxEnemiesResume)
  \/ Pause
  \/ Resume(MaxEnemiesResume)
  \/ FrameWithin

SpecResume == InitResume /\ [][NextResume]_vars

\* the state after the unlocking of barracks in an earlier session, a reset
\* and the building of two towers beside the path
InitVolley ==
  /\ \E t1 \in ClickTowers, t2 \in ClickTowers :
       LET tower(tt) == [type |-> tt,
                         x |-> 30 * Unit, y |-> 150 * Unit, level |-> 1,
                         damage |-> TOWER_TYPES[tt].damage,
                         range |-> TOWER_TYPES[tt].range,
                         fireRate |-> TOWER_TYPES[tt].fireRate,
                         lastFired |-> 0]
       IN /\ towers = <<tower(t1), tower(t2)>>
          /\ gold = InitialGold - TOWER_TYPES[t1].cost - TOWER_TYPES[t2].cost
          /\ selectedTower = t2
  /\ unlockedTowers = {"archer", "cannon", "barracks"}
  /\ enemies = <<>>
  /\ lives = InitialLives
  /\ wave = 0
  /\ isPlaying = FALSE
  /\ gameOver = FALSE
  /\ victory = FALSE
  /\ currentMap = "greenlands"
  /\ xpEarned = 0
  /\ unlockedMaps = <<"greenlands">>
  /\ placementMode = FALSE
  /\ killCount = 0
  /\ totalKills = 0
  /\ address \in {"none", "0xA11CE"}
  /\ waveTimers = 0
  /\ rafPending = 0
  /\ now = Epoch
  /\ recorded = <<>>
  /\ insertThrows = FALSE
  /\ insertCalls = 0
  /\ ChessInit

\* "Start Battle" with the two towers on the board
StartVolley ==
  /\ ~isPlaying /\ ~gameOver /\ wave = 0
  /\ \E p \in RandomStreams :
       LET s == commit(St, startGame(St), FALSE, p)
       IN Len(s.enemies) <= MaxEnemies /\ Apply(s)

\* the first wave frame by frame, with two towers built before it
NextVolley ==
  \/ StartVolley
  \/ Frame

SpecVolley == InitVolley /\ [][NextVolley]_vars

\* the events of ChessGame
NextChess ==
  \/ SquareClick
  \/ AiTimerFires
  \/ ChessReset

SpecChess == Init /\ [][NextChess]_vars

\* one tower, one enemy, frame by frame
SpecDamage == InitDamage /\ [][Frame]_vars

\* SpecWaves with the browser's scheduling: a requested animation frame is
\* run and an expired timeout fires
SpecLive ==
  /\ Init /\ [][NextWaves]_vars
  /\ WF_vars(Tick(MaxEnemiesWaves))
  /\ WF_vars(WaveTimerFires(MaxEnemiesWaves))

----------------------------------------------------------------------------
(* Properties of the wave counter, the lives and the session recorder *)

\* C1: within a session the wave number never decreases, and it increases
\* only in a state whose enemy collection is empty (a step to wave 0 is the
\* reset that ends the session); no timeout scheduled at the start or at an
\* earlier clear raises the wave while enemies are alive.
C1_WaveMonotone ==
  [][wave' # wave => \/ wave' = 0
                     \/ wave' > wave /\ enemies = <<>>]_vars

\* C2: the lives are never negative in a reachable state.
C2_LivesNeverNegative == lives >= 0

\* C3: the lives change only in animation frames, where they decrease by
\* one for each enemy that leaves the field without being killed, that is,
\* at the end of the path; a click, a kill or a fired timeout leaves them
\* alone, and a reset starts a new session with InitialLives.
C3_LivesChangeOnlyByLeaks ==
  [][IF now' > now
     THEN lives - lives' = (Len(enemies) - Len(enemies'))
                             - (totalKills' - totalKills)
     ELSE lives' = lives \/ (wave' = 0 /\ lives' = InitialLives)]_vars

\* a session with a tower on the board in which enemies were killed, others
\* reached the end of the path, and the wave has advanced
C3_Witness ==
  /\ lives < InitialLives
  /\ totalKills > 0
  /\ towers # <<>>
  /\ wave > 1

\* C4: with a wallet connected, a finished game (victory or defeat) has been
\* recorded exactly once.
C4_RecordedOncePerGame ==
  (gameOver /\ address # "none") => Len(recorded) = 1

\* C5: when the last life is lost the session is in Defeat (gameOver set,
\* isPlaying cleared) and, with a wallet connected, a row with result
\* "loss" has been recorded.
C5_LastLifeDefeatRecordsLoss ==
  lives = 0 =>
    /\ gameOver /\ ~isPlaying
    /\ address # "none" =>
         \E i \in 1 .. Len(recorded) : recorded[i].result = "loss"

\* C6: without a wallet address nothing is ever recorded, and the game
\* still ends: a cleared final wave is a Victory with its flags and its
\* experience bonus, and exhausted lives are a Defeat.
C6_NoWalletNoRecord ==
  address = "none" =>
    /\ recorded = <<>>
    /\ ~(isPlaying /\ enemies = <<>> /\ wave >= MAPS[currentMap].waves)
    /\ victory =>
         /\ gameOver /\ ~isPlaying
         /\ \E w \in MAPS[currentMap].waves .. wave :
              xpEarned = KillXp * totalKills + VictoryBonus + w * PerWaveBonus
    /\ lives <= 0 => gameOver /\ ~isPlaying /\ ~victory

\* a Victory without a wallet, with the next map unlocked
C6_Witness ==
  /\ address = "none"
  /\ victory /\ gameOver /\ ~isPlaying
  /\ xpEarned >= VictoryBonus
  /\ includes(unlockedMaps, "volcano")

\* C7: after a reset or a map switch the wave number leaves 0 only by the
\* start of a new game, which sets isPlaying.
C7_StaleTimerIgnored ==
  [][(wave = 0 /\ wave' # 0) => isPlaying']_vars

\* C8: while the session is paused (not playing, not over, wave > 0) the wave
\* number does not change.
C8_PausedWaveFrozen ==
  [][(/\ ~isPlaying /\ ~gameOver /\ wave > 0
      /\ ~isPlaying' /\ ~gameOver' /\ wave' > 0) => wave' = wave]_vars

\* C9: the session enters Victory only at the wave count of the map, by a
\* step that removes the last enemies of that final wave from the field.
C9_VictoryOnlyAfterFinalRoster ==
  [][(~victory /\ victory') =>
       /\ wave' >= MAPS[currentMap'].waves
       /\ enemies' = <<>>
       /\ \E i \in 1 .. Len(enemies) : enemies[i].id[1] = wave']_vars

\* C10: a step that ends with no lives left never ends in Victory: no
\* victory flag, no victory bonus, no map unlocked, no "win" recorded, even
\* when it removes the last enemy of the final wave.
C10_DefeatPreemptsVictory ==
  [][lives' <= 0 =>
       /\ gameOver' /\ ~victory'
       /\ unlockedMaps' = unlockedMaps
       /\ xpEarned' = KillXp * totalKills'
       /\ \A i \in 1 .. Len(recorded') : recorded'[i].result # "win"]_vars

\* the enemy that takes the last life was the last enemy of the final wave
\* of a map that has a successor
C10_Witness ==
  /\ lives = 0
  /\ enemies = <<>>
  /\ currentMap = "volcano"
  /\ wave >= MAPS[currentMap].waves
  /\ gameOver /\ ~victory
  /\ ~includes(unlockedMaps, "crystalCave")

----------------------------------------------------------------------------
(* Properties of gold, placement, damage, experience, maps and reset *)

\* C11 as stated: in every step of a session gold changes by minus the cost
\* of the tower purchased plus the rewards of the enemies killed, and by
\* nothing else (a reset starts a new session with InitialGold).
C11_GoldTowersAndKillsOnly ==
  [][\/ wave' = 0 /\ towers' = <<>> /\ gold' = InitialGold
     \/ LET placed == IF Len(towers') > Len(towers)
                      THEN TOWER_TYPES[towers'[Len(towers')].type].cost
                      ELSE 0
        IN IF totalKills' = totalKills
           THEN gold' = gold - placed
           ELSE \E killed \in SUBSET (1 .. Len(enemies)) :
                  /\ Cardinality(killed) = totalKills' - totalKills
                  /\ gold' = gold - placed
                       + SumReward([i \in 1 .. Len(enemies) |->
                                      IF i \in killed THEN enemies[i]
                                      ELSE [reward |-> 0]])]_vars

\* C11 amended: gold changes by minus the cost of the tower purchased, minus
\* UnlockFactor times the cost of the tower type unlocked, plus the rewards
\* of the enemies killed, and by nothing else.
C11_GoldConservation ==
  [][\/ wave' = 0 /\ towers' = <<>> /\ gold' = InitialGold
     \/ LET placed == IF Len(towers') > Len(towers)
                      THEN TOWER_TYPES[towers'[Len(towers')].type].cost
                      ELSE 0
            fee == IF unlockedTowers' # unlockedTowers
                   THEN UnlockFactor
                          * TOWER_TYPES[CHOOSE t \in unlockedTowers' :
                                          t \notin unlockedTowers].cost
                   ELSE 0
        IN IF totalKills' = totalKills
           THEN gold' = gold - placed - fee
           ELSE \E killed \in SUBSET (1 .. Len(enemies)) :
                  /\ Cardinality(killed) = totalKills' - totalKills
                  /\ gold' = gold - placed - fee
                       + SumReward([i \in 1 .. Len(enemies) |->
                                      IF i \in killed THEN enemies[i]
                                      ELSE [reward |-> 0]])]_vars

\* a tower type has been unlocked, and in the session a tower was bought and
\* enemies were killed
C11_Witness ==
  /\ "barracks" \in unlockedTowers
  /\ towers # <<>>
  /\ totalKills > 0

C13_PlacementClearance ==
  \A i \in 1 .. Len(towers) :
    \A k \in 1 .. Len(MAPS[currentMap].path) - 1 :
      LET a == MAPS[currentMap].path[k]
          b == MAPS[currentMap].path[k + 1]
          abx == (b.x - a.x) \div Unit
          aby == (b.y - a.y) \div Unit
          apx == (towers[i].x - a.x) \div Unit
          apy == (towers[i].y - a.y) \div Unit
          bpx == (towers[i].x - b.x) \div Unit
          bpy == (towers[i].y - b.y) \div Unit
          len2 == abx * abx + aby * aby
          dot == apx * abx + apy * aby
          r2 == MinDistanceFromPath * MinDistanceFromPath
      IN IF dot <= 0 THEN apx * apx + apy * apy >= r2
         ELSE IF dot >= len2 THEN bpx * bpx + bpy * bpy >= r2
         ELSE (apx * apx + apy * apy) * len2 - dot * dot >= r2 * len2

C15_VictoryBonusOnce ==
  [][/\ (~victory /\ victory') =>
          xpEarned' = KillXp * totalKills' + VictoryBonus + wave' * PerWaveBonus
     /\ victory => \/ xpEarned' = xpEarned
                   \/ xpEarned' = 0 /\ ~victory']_vars

\* a Victory after kills, with the bonus on top of the kills' experience
C15_Witness ==
  /\ victory /\ totalKills > 0
  /\ xpEarned > KillXp * totalKills

\* C16: the list of unlocked maps never holds a map twice; in Victory on a
\* map that is not the last of the catalogue the next map is in the list
\* exactly once; a Victory on the last map leaves the list as it was.
C16_MapUnlockIdempotent ==
  [][LET next == IndexOf(MapKeys, currentMap', 1) + 1
     IN /\ \A i, j \in 1 .. Len(unlockedMaps') :
             unlockedMaps'[i] = unlockedMaps'[j] => i = j
        /\ (victory' /\ next <= Len(MapKeys)) =>
             Cardinality({i \in 1 .. Len(unlockedMaps') :
                            unlockedMaps'[i] = MapKeys[next]}) = 1
        /\ (~victory /\ victory' /\ next > Len(MapKeys)) =>
             unlockedMaps' = unlockedMaps]_vars

\* a Victory on the last map, after the victories that unlocked every map
C16_Witness ==
  /\ victory /\ currentMap = MapKeys[Len(MapKeys)]
  /\ Len(unlockedMaps) = Len(MapKeys)

\* C17: a step of the Reset button or of a map button, from whatever state,
\* ends with no towers and no enemies, with gold, lives, wave, experience
\* and both kill counters at their initial values, and with isPlaying,
\* gameOver and victory cleared, which is the Idle state.
C17_ResetRestoresIdle ==
  [][(ResetGame \/ SelectMap) =>
       /\ towers' = <<>> /\ enemies' = <<>>
       /\ gold' = InitialGold /\ lives' = InitialLives
       /\ wave' = 0 /\ xpEarned' = 0
       /\ killCount' = 0 /\ totalKills' = 0
       /\ ~isPlaying' /\ ~gameOver' /\ ~victory'
       /\ rafPending' = 0]_vars

\* the state after a reset of a game in progress: Idle, with the timeouts
\* of the game still pending
C17_Witness ==
  /\ wave = 0 /\ ~isPlaying /\ ~gameOver /\ ~victory
  /\ waveTimers > 0
  /\ towers = <<>> /\ enemies = <<>>
  /\ gold = InitialGold /\ lives = InitialLives

\* C18: while isPlaying is false or gameOver is true no frame callback is
\* pending, and a step in which frames run (the clock of the frames moves
\* on) leaves the enemies, the towers, gold, lives, experience and the kill
\* counters as they were.
C18_IdleTickNoOp ==
  [][(~isPlaying \/ gameOver) =>
       /\ rafPending = 0
       /\ now' > now =>
            /\ enemies' = enemies /\ towers' = towers
            /\ gold' = gold /\ lives' = lives /\ xpEarned' = xpEarned
            /\ killCount' = killCount /\ totalKills' = totalKills]_vars

\* a paused game with a tower that has fired and enemies on the way
C18_Witness ==
  /\ ~isPlaying /\ ~gameOver /\ rafPending = 0
  /\ \E i \in 1 .. Len(towers) : towers[i].lastFired > 0
  /\ \E i \in 1 .. Len(enemies) : enemies[i].x > 0

\* C19: in Defeat (gameOver set by lives <= 0) no frame callback is pending
\* and no frame and no wave timeout changes lives, gold, the wave number,
\* the enemies, experience or the kill counters.
C19_DefeatTerminal ==
  [][(gameOver /\ ~victory /\ lives <= 0) =>
       /\ rafPending = 0
       /\ (WaveTimerFires(MaxEnemiesWaves) \/ Tick(MaxEnemiesWaves)) =>
            UNCHANGED <<lives, gold, wave, enemies, xpEarned, killCount,
                        totalKills>>]_vars

\* C20: the start of a game spawns the roster of wave 1, 1 * 2 + SpawnBase
\* enemies, each with the health of its type plus HealthPerWave; the wave
\* number becomes 2 only once that roster has left the field, by a step
\* that spawns the roster of wave 2; and a running game whose first roster
\* was killed without a leak gets to wave 2 with that roster on the field.
C20_WaveTwoAfterWaveOneCleared ==
  /\ [][(~isPlaying /\ wave = 0 /\ isPlaying') =>
          /\ Len(enemies') = 1 * 2 + SpawnBase
          /\ \A i \in 1 .. Len(enemies') :
               enemies'[i].health
                 = baseStats[enemies'[i].type].health + HealthPerWave]_vars
  /\ [][(wave = 1 /\ wave' = 2) =>
          /\ enemies = <<>>
          /\ Len(enemies') = 2 * 2 + SpawnBase
          /\ \A i \in 1 .. Len(enemies') : enemies'[i].id[1] = 2]_vars
  /\ (/\ isPlaying /\ wave = 1 /\ enemies = <<>>
      /\ lives = InitialLives /\ totalKills = 1 * 2 + SpawnBase)
       ~> (wave = 2 /\ \E i \in 1 .. Len(enemies) : enemies[i].id[1] = 2)

(* Properties of the recorder, the frame and the towers *)

\* C21: with an insert that throws, handleVictory leaves gameOver, victory,
\* isPlaying, the experience and the unlocked maps as it does with an insert
\* that succeeds, and stores no row; insert is called at most once in a
\* session; and after such a Victory and a reset, Start Battle begins wave
\* 1 of a new game with its roster, full lives and no experience.
C21_RecorderFailureHarmless ==
  [][/\ LET ok == handleVictory([St EXCEPT !.insertThrows = FALSE])
            ko == handleVictory([St EXCEPT !.insertThrows = TRUE])
        IN /\ ko.gameOver = ok.gameOver /\ ko.victory = ok.victory
           /\ ko.isPlaying = ok.isPlaying /\ ko.xpEarned = ok.xpEarned
           /\ ko.unlockedMaps = ok.unlockedMaps
           /\ ko.recorded = recorded
     /\ insertCalls' <= 1
     /\ (insertThrows /\ ~victory /\ victory') =>
          /\ gameOver' /\ ~isPlaying'
          /\ xpEarned' = KillXp * totalKills' + VictoryBonus
                           + wave' * PerWaveBonus
          /\ insertCalls' = 1 /\ recorded' = <<>>
     /\ (insertThrows /\ ~isPlaying /\ wave = 0 /\ isPlaying') =>
          /\ wave' = 1 /\ ~gameOver' /\ ~victory'
          /\ Len(enemies') = 1 * 2 + SpawnBase
          /\ lives' = InitialLives /\ xpEarned' = 0
          /\ insertCalls' = 0]_vars

\* a new game in progress after a Victory whose insert was rejected
C21_Witness ==
  /\ insertThrows /\ includes(unlockedMaps, "volcano")
  /\ isPlaying /\ wave = 1 /\ enemies # <<>>
  /\ recorded = <<>> /\ insertCalls = 0

\* C22: the wave number rises by one at a time, and while a game is
\* playing on an empty field no step adds a pending wave increment to the
\* one the clearing of the field has scheduled, however many frames pass.
C22_OneIncrementPerClear ==
  [][/\ (wave' # wave /\ wave' # 0) => wave' = wave + 1
     /\ (/\ isPlaying /\ wave > 0 /\ enemies = <<>>
         /\ isPlaying' /\ wave' = wave /\ enemies' = <<>>) =>
          waveTimers' <= waveTimers]_vars

\* C23: in a frame in which the one tower's gate is open, the enemy that is
\* hit is within range at the position it has after this frame's move and
\* no enemy before it in the collection is; if nobody is hit or killed, no
\* enemy is within range at its new position; an enemy that completes the
\* path in this frame costs a life and is not killed; and the frame that empties
\* the field of a running game schedules the wave increment in the same
\* step, after the combat.
C23_MoveBeforeCombat ==
  [][(/\ now' > now /\ Len(towers) = 1
      /\ now' - towers[1].lastFired >= towers[1].fireRate) =>
       LET tower == towers[1]
           Near(e) == (e.x - tower.x) * (e.x - tower.x)
                        + (e.y - tower.y) * (e.y - tower.y)
                      <= (tower.range * Unit) * (tower.range * Unit)
           Hit(j) == \E i \in 1 .. Len(enemies) :
                       /\ enemies[i].id = enemies'[j].id
                       /\ enemies'[j].health < enemies[i].health
       IN /\ \A j \in 1 .. Len(enemies') :
               Hit(j) => /\ Near(enemies'[j])
                         /\ \A k \in 1 .. (j - 1) : ~Near(enemies'[k])
          /\ (/\ totalKills' = totalKills
              /\ \A j \in 1 .. Len(enemies') : ~Hit(j)) =>
               \A j \in 1 .. Len(enemies') : ~Near(enemies'[j])
          /\ LET path == MAPS[currentMap].path
                 end == path[Len(path)]
                 Arrived(e) ==
                   /\ e.pathIndex = Len(path) - 1
                   /\ (end.x - e.x) * (end.x - e.x)
                        + (end.y - e.y) * (end.y - e.y)
                      < (ArrivalEps * Unit) * (ArrivalEps * Unit)
                 Gone(i) == \A j \in 1 .. Len(enemies') :
                              enemies'[j].id # enemies[i].id
                 arrived == {i \in 1 .. Len(enemies) : Arrived(enemies[i])}
                 gone == {i \in 1 .. Len(enemies) : Gone(i)}
             IN /\ arrived \subseteq gone
                /\ lives' = lives - Cardinality(arrived)
                /\ totalKills' - totalKills = Cardinality(gone \ arrived)
          /\ (enemies # <<>> /\ enemies' = <<>> /\ isPlaying') =>
               waveTimers' = waveTimers + 1]_vars

\* the tower has just hit an enemy that this frame's move brought into range
C23_Witness ==
  /\ Len(towers) = 1 /\ towers[1].lastFired = now
  /\ \E j \in 1 .. Len(enemies) :
       /\ enemies[j].health < enemies[j].maxHealth
       /\ InRange(towers[1], enemies[j])
       /\ ~InRange(towers[1],
                   [enemies[j] EXCEPT !.x = enemies[j].x - enemies[j].speed])

\* C24: in a frame, a tower whose last shot is at least fireRate old has
\* its lastFired set to the time of the frame, with or without an enemy in
\* range, and nothing else of it changes; a tower whose last shot is more
\* recent is left as it is, and with no tower past its gate no enemy loses
\* health and nobody is killed.
C24_FireRateGate ==
  [][now' > now =>
       LET Gate(k) == now' - towers[k].lastFired >= towers[k].fireRate
       IN /\ Len(towers') = Len(towers)
          /\ \A k \in 1 .. Len(towers) :
               towers'[k] = IF Gate(k)
                            THEN [towers[k] EXCEPT !.lastFired = now']
                            ELSE towers[k]
          /\ (\A k \in 1 .. Len(towers) : ~Gate(k)) =>
               /\ totalKills' = totalKills /\ gold' = gold
               /\ \A j \in 1 .. Len(enemies') : \A i \in 1 .. Len(enemies) :
                    enemies[i].id = enemies'[j].id =>
                      enemies'[j].health = enemies[i].health]_vars

\* a tower that has just fired at nobody: it is reloading, no enemy is in
\* its range and none has been hurt
C24_Witness ==
  /\ Len(towers) = 1 /\ towers[1].lastFired = now
  /\ enemies # <<>> /\ totalKills = 0
  /\ \A j \in 1 .. Len(enemies) :
       /\ ~InRange(towers[1], enemies[j])
       /\ enemies[j].health = enemies[j].maxHealth

\* C25: in a frame in which the one tower's gate is open at most one enemy
\* is hurt, counting the enemies killed and the enemies left with less
\* health than any enemy of that id had before; the enemy hurt is within
\* range and no enemy before it in the collection is.
C25_FirstFoundOnly ==
  [][(/\ now' > now /\ Len(towers) = 1
      /\ now' - towers[1].lastFired >= towers[1].fireRate) =>
       LET tower == towers[1]
           Near(e) == (e.x - tower.x) * (e.x - tower.x)
                        + (e.y - tower.y) * (e.y - tower.y)
                      <= (tower.range * Unit) * (tower.range * Unit)
           Hurt(j) == /\ \E i \in 1 .. Len(enemies) :
                           /\ enemies[i].id = enemies'[j].id
                           /\ enemies'[j].health < enemies[i].health
                      /\ \A i \in 1 .. Len(enemies) :
                           enemies[i].id = enemies'[j].id =>
                             enemies'[j].health # enemies[i].health
           hurt == {j \in 1 .. Len(enemies') : Hurt(j)}
       IN /\ (totalKills' - totalKills) + Cardinality(hurt) <= 1
          /\ \A j \in hurt :
               /\ Near(enemies'[j])
               /\ \A k \in 1 .. (j - 1) : ~Near(enemies'[k])]_vars

\* C26: every enemy in the collection has a health above 0 and at most its
\* maxHealth: an enemy killed by a tower or arrived at the end of the path
\* is not in the collection after the frame.
C26_EnemyHealthInRange ==
  \A i \in 1 .. Len(enemies) :
    /\ enemies[i].health > 0
    /\ enemies[i].health <= enemies[i].maxHealth

\* enemies on the field after a kill and an arrival
C26_Witness ==
  /\ totalKills > 0 /\ lives < InitialLives /\ enemies # <<>>
  /\ towers # <<>> /\ towers[1].lastFired = now

\* C27: the pathIndex of every enemy is between 0 and the number of
\* waypoints minus 1; from one frame to the next it stays or grows by 1,
\* and in the frame in which it grows the enemy keeps its position.
C27_PathIndexMonotone ==
  [][/\ \A j \in 1 .. Len(enemies') :
          /\ enemies'[j].pathIndex >= 0
          /\ enemies'[j].pathIndex <= Len(MAPS[currentMap'].path) - 1
     /\ now' > now =>
          \A j \in 1 .. Len(enemies') : \A i \in 1 .. Len(enemies) :
            enemies[i].id = enemies'[j].id =>
              /\ enemies'[j].pathIndex \in
                   {enemies[i].pathIndex, enemies[i].pathIndex + 1}
              /\ enemies'[j].pathIndex # enemies[i].pathIndex =>
                   /\ enemies'[j].x = enemies[i].x
                   /\ enemies'[j].y = enemies[i].y]_vars

\* an enemy that has passed the first waypoint where it halted, short of it
C27_Witness ==
  \E i \in 1 .. Len(enemies) :
    /\ enemies[i].pathIndex = Len(MAPS[currentMap].path) - 1
    /\ enemies[i].x < MAPS[currentMap].path[1].x

\* C28: in a frame, the kill counters grow by the number of enemies that
\* leave the collection without having arrived at the end of the path, gold
\* by the sum of their rewards and the experience by KillXp for each, also
\* when two towers fire in the frame; before Victory the experience is
\* KillXp times totalKills.
C28_KillCreditedOnce ==
  [][now' > now =>
       LET path == MAPS[currentMap].path
           end == path[Len(path)]
           Arrived(e) ==
             /\ e.pathIndex = Len(path) - 1
             /\ (end.x - e.x) * (end.x - e.x) + (end.y - e.y) * (end.y - e.y)
                  < (ArrivalEps * Unit) * (ArrivalEps * Unit)
           Killed(e) == /\ ~Arrived(e)
                        /\ \A j \in 1 .. Len(enemies') : enemies'[j].id # e.id
           killed == SelectSeq(enemies, Killed)
       IN /\ totalKills' = totalKills + Len(killed)
          /\ killCount' = killCount + Len(killed)
          /\ gold' = gold + SumReward(killed)
          /\ ~victory' => /\ xpEarned' = xpEarned + KillXp * Len(killed)
                          /\ xpEarned' = KillXp * totalKills']_vars

\* two barracks have fired in the same frame at the same enemy, which the
\* second shot killed
C28_Witness ==
  /\ Len(towers) = 2
  /\ towers[1].type = "barracks" /\ towers[2].type = "barracks"
  /\ towers[1].lastFired = now /\ towers[2].lastFired = now
  /\ totalKills = 1 /\ xpEarned = KillXp /\ lives = InitialLives
  /\ Len(enemies) = 1 * 2 + SpawnBase - 1

\* C29: placeTower changes nothing unless placement mode is armed and a
\* tower type is selected; a step that lengthens the tower list happens in
\* armed placement mode, appends exactly one tower of the selected type with
\* the catalogue's damage, range and fire rate, level 1 and lastFired 0,
\* takes exactly the catalogue's cost from gold and disarms placement mode.
C29_PlacementEffect ==
  [][/\ \A pt \in ClickPoints :
          (~placementMode \/ selectedTower = "null")
            => placeTower(St, pt.x, pt.y) = St
     /\ Len(towers') > Len(towers) =>
          /\ placementMode /\ selectedTower # "null"
          /\ Len(towers') = Len(towers) + 1
          /\ SubSeq(towers', 1, Len(towers)) = towers
          /\ LET t == towers'[Len(towers')]
                 towerData == TOWER_TYPES[selectedTower]
             IN /\ t.type = selectedTower
                /\ t.level = 1
                /\ t.damage = towerData.damage
                /\ t.range = towerData.range
                /\ t.fireRate = towerData.fireRate
                /\ t.lastFired = 0
                /\ gold' = gold - towerData.cost
          /\ ~placementMode']_vars

\* a barracks has just been placed during the first wave
C29_Witness ==
  /\ Len(towers) = 1
  /\ towers[1].type = "barracks" /\ towers[1].lastFired = 0
  /\ ~placementMode
  /\ isPlaying /\ wave = 1
  /\ unlockedTowers = {"archer", "cannon", "barracks"}

\* C30: every step either empties the tower list in a reset to the idle
\* state, or keeps every tower in its place with every field but lastFired
\* unchanged; a step in which time passes, the wave changes or the game
\* ends leaves the number of towers unchanged.
C30_TowersImmutable ==
  [][/\ \/ /\ towers' = <<>>
           /\ wave' = 0 /\ ~isPlaying' /\ ~gameOver' /\ ~victory'
           /\ gold' = InitialGold /\ lives' = InitialLives
        \/ /\ Len(towers') >= Len(towers)
           /\ \A i \in 1 .. Len(towers) :
                towers'[i] =
                  [towers[i] EXCEPT !.lastFired = towers'[i].lastFired]
     /\ (now' > now \/ wave' > wave \/ (gameOver' /\ ~gameOver))
          => Len(towers') = Len(towers)]_vars

\* the game has ended in defeat with a tower on the board that has fired
C30_Witness ==
  /\ gameOver /\ ~victory /\ lives <= 0
  /\ Len(towers) = 1
  /\ towers[1].lastFired > 0
  /\ towers[1].level = 1

----------------------------------------------------------------------------
(* Properties of the spawner, the loop and the tower shop *)

\* C31: a step that lengthens the enemy collection keeps the enemies that
\* were there and appends exactly wave * 2 + SpawnBase enemies, each with
\* pathIndex 0 and health = maxHealth = its type's base health plus
\* HealthPerWave per wave, the i-th (from 0) at the first waypoint moved
\* by -i * SpawnSpacing on x, so that no two of them share a position; the
\* roster of the four-tower component for the same wave has
\* wave * 2 + SpawnBaseBasic enemies of health HealthBasic plus HealthPerWave
\* per wave, SpawnSpacingBasic apart.
C31_SpawnRoster ==
  [][Len(enemies') > Len(enemies) =>
       LET n == Len(enemies') - Len(enemies)
           added == SubSeq(enemies', Len(enemies) + 1, Len(enemies'))
           first == MAPS[currentMap'].path[1]
       IN /\ n = wave' * 2 + SpawnBase
          /\ SubSeq(enemies', 1, Len(enemies)) = enemies
          /\ \A i \in 1 .. n :
               /\ added[i].pathIndex = 0
               /\ added[i].health = added[i].maxHealth
               /\ added[i].health
                    = baseStats[added[i].type].health + wave' * HealthPerWave
               /\ added[i].x = first.x - (i - 1) * SpawnSpacing * Unit
               /\ added[i].y = first.y
          /\ \A i \in 1 .. n : \A j \in 1 .. n :
               i # j => <<added[i].x, added[i].y>> # <<added[j].x, added[j].y>>
          /\ LET basic == spawnWaveBasic(wave')
             IN /\ Len(basic) = wave' * 2 + SpawnBaseBasic
                /\ \A i \in 1 .. Len(basic) :
                     /\ basic[i].pathIndex = 0
                     /\ basic[i].health = basic[i].maxHealth
                     /\ basic[i].health = HealthBasic + wave' * HealthPerWave
                     /\ basic[i].x = 0 - (i - 1) * SpawnSpacingBasic * Unit
                     /\ \A j \in 1 .. Len(basic) :
                          i # j => basic[i].x # basic[j].x
    ]_vars

\* the roster of wave 3 has just been appended behind enemies of wave 2
C31_Witness ==
  /\ wave = 3
  /\ Len(enemies) > 3 * 2 + SpawnBase
  /\ enemies[1].id[1] = 2
  /\ LET last == enemies[Len(enemies)]
     IN /\ last.id = <<3, 3 * 2 + SpawnBase - 1>>
        /\ last.x = MAPS[currentMap].path[1].x
                      - (3 * 2 + SpawnBase - 1) * SpawnSpacing * Unit

\* C32: every enemy spawned in wave w has a type among the first
\* min(w \div 3, 4) + 1 entries of enemyTypes: an enemy of waves 1 and 2 is
\* a goblin, and an enemy of the k-th tougher type is of wave 3k or later.
C32_TypesWaveGated ==
  \A j \in 1 .. Len(enemies) :
    LET w == enemies[j].id[1]
        idx == IndexOf(enemyTypes, enemies[j].type, 1)
    IN /\ idx >= 1
       /\ idx <= Min(w \div 3, 4) + 1
       /\ w <= 2 => enemies[j].type = "goblin"
       /\ w >= 3 * (idx - 1)

\* a necromancer of wave 12, the first wave that admits the fourth tougher
\* type, is on the field
C32_Witness ==
  \E j \in 1 .. Len(enemies) :
    /\ enemies[j].type = "necromancer"
    /\ enemies[j].id[1] = 12
    /\ enemies[j].x > MAPS[currentMap].path[1].x

\* C33: at most one requestAnimationFrame(gameLoop) callback is pending in
\* every reachable state, whatever the sequence of start, pause, resume,
\* reset, map change, Victory and defeat, and one is pending only while
\* the game is playing and not over.
C33_SingleLoop ==
  /\ rafPending <= 1
  /\ rafPending = 1 => isPlaying /\ ~gameOver

\* the loop runs again after a pause and a resume, which has spawned the
\* roster of wave 1 a second time
C33_Witness ==
  /\ isPlaying /\ rafPending = 1
  /\ wave = 1
  /\ Len(enemies) > 1 * 2 + SpawnBase

\* C34: a step that sets isPlaying again in a wave that has begun (the
\* Resume button after a pause) leaves the enemy collection as it was at
\* the pause: it adds no enemy and changes no enemy's position or health.
C34_ResumeKeepsEnemies ==
  [][(~isPlaying /\ isPlaying' /\ wave > 0 /\ wave' = wave)
       => enemies' = enemies]_vars

\* C35: in every reachable state no two enemies of the collection have the
\* same id.
C35_EnemyIdsUnique ==
  \A i \in 1 .. Len(enemies) : \A j \in 1 .. Len(enemies) :
    i # j => enemies[i].id # enemies[j].id

\* C36: in a frame, every enemy that stood within ArrivalEps of the last
\* waypoint leaves the collection and lives fall by one for each of them;
\* gold and the kill counters change only by the enemies that left without
\* having arrived, and with no such enemy gold, the experience and the
\* kill counters are unchanged.
C36_LeakWithoutCredit ==
  [][now' > now =>
       LET path == MAPS[currentMap].path
           end == path[Len(path)]
           Arrived(e) ==
             /\ e.pathIndex = Len(path) - 1
             /\ (end.x - e.x) * (end.x - e.x) + (end.y - e.y) * (end.y - e.y)
                  < (ArrivalEps * Unit) * (ArrivalEps * Unit)
           Left(e) == \A j \in 1 .. Len(enemies') : enemies'[j].id # e.id
           Shot(e) == Left(e) /\ ~Arrived(e)
           arrived == SelectSeq(enemies, Arrived)
           shot == SelectSeq(enemies, Shot)
       IN /\ \A i \in 1 .. Len(arrived) : Left(arrived[i])
          /\ lives' = lives - Len(arrived)
          /\ gold' = gold + SumReward(shot)
          /\ killCount' = killCount + Len(shot)
          /\ totalKills' = totalKills + Len(shot)
          /\ (Len(shot) = 0 /\ ~victory') =>
               /\ gold' = gold /\ xpEarned' = xpEarned
               /\ killCount' = killCount /\ totalKills' = totalKills]_vars

\* an enemy has passed a tower that fired at it and reached the end of the
\* path: a life is lost and nothing was credited
C36_Witness ==
  /\ Len(towers) = 1
  /\ towers[1].lastFired > 0
  /\ lives = InitialLives - 1
  /\ totalKills = 0 /\ killCount = 0 /\ xpEarned = 0
  /\ gold = InitialGold - TOWER_TYPES[towers[1].type].cost
  /\ Len(enemies) = 1 * 2 + SpawnBase - 1

\* C37: unlockTower changes nothing when gold is below UnlockFactor times
\* the tower's cost, and otherwise takes exactly that amount and adds the
\* type to the unlocked towers; every step keeps the towers that were
\* unlocked (a reset included), and a step that unlocks a type starts with
\* at least the fee in gold and takes exactly the fee.
C37_UnlockFee ==
  [][/\ \A t \in DOMAIN TOWER_TYPES :
          LET fee == UnlockFactor * TOWER_TYPES[t].cost
              s == unlockTower(St, t)
          IN IF gold >= fee
             THEN /\ s.gold = gold - fee
                  /\ s.unlockedTowers = unlockedTowers \cup {t}
             ELSE s = St
     /\ unlockedTowers \subseteq unlockedTowers'
     /\ unlockedTowers' # unlockedTowers =>
          \E t \in unlockedTowers' \ unlockedTowers :
            /\ unlockedTowers' = unlockedTowers \cup {t}
            /\ gold >= UnlockFactor * TOWER_TYPES[t].cost
            /\ gold' = gold - UnlockFactor * TOWER_TYPES[t].cost]_vars

\* barracks was unlocked in an earlier game and is still unlocked after a
\* reset, in a new game in which a tower was bought
C37_Witness ==
  /\ "barracks" \in unlockedTowers
  /\ Len(towers) = 1
  /\ gold = InitialGold - TOWER_TYPES[towers[1].type].cost
  /\ wave = 0

\* C38: in every reachable state every tower of the tower list is of an
\* unlocked type, and placement mode is armed only with an unlocked type
\* selected.
C38_TowersUnlocked ==
  /\ \A i \in 1 .. Len(towers) : towers[i].type \in unlockedTowers
  /\ placementMode => selectedTower \in unlockedTowers

\* a barracks stands on the board of a game that has not started, placed
\* after the unlock and a reset
C38_Witness ==
  /\ Len(towers) = 1
  /\ towers[1].type = "barracks"
  /\ ~placementMode
  /\ wave = 0 /\ ~isPlaying

----------------------------------------------------------------------------
(* Properties of ChessGame *)

\* C39: in ChessGame a move (moveCount grows by one) happens only while the
\* game is not over and is made by the side whose turn it is: on the
\* player's turn only white pieces take new squares and the turn passes to
\* the AI, on the AI's turn only black pieces do and the turn passes to the
\* player; the board changes only by a move or by a reset to the initial
\* board; once the game is over only a reset changes the board; and a
\* timeout of the AI-turn effect is pending only on the AI's turn of a game
\* that is not over, one at most.
C39_TurnsAlternate ==
  [][LET Reset == /\ moveCount' = 0 /\ board' = initializeBoard
                  /\ isPlayerTurn' /\ ~chessOver'
         TakenBy(color) ==
           /\ \E sq \in Squares :
                /\ board'[sq.row][sq.col] # board[sq.row][sq.col]
                /\ board'[sq.row][sq.col].color = color
           /\ \A sq \in Squares :
                board'[sq.row][sq.col] # board[sq.row][sq.col]
                  => board'[sq.row][sq.col] \in
                       {Empty, [type |-> board'[sq.row][sq.col].type,
                                color |-> color]}
     IN /\ moveCount' = moveCount + 1 =>
             /\ ~chessOver
             /\ \/ /\ isPlayerTurn /\ ~isPlayerTurn' /\ TakenBy("white")
                \/ /\ ~isPlayerTurn /\ isPlayerTurn' /\ TakenBy("black")
        /\ board' # board => moveCount' = moveCount + 1 \/ Reset
        /\ chessOver => board' = board \/ Reset
        /\ Len(aiTimers') <= 1
        /\ aiTimers' # <<>> => ~isPlayerTurn' /\ ~chessOver']_vars

\* the AI has taken the white king after both sides have moved in turn, and
\* no timeout is pending
C39_Witness ==
  /\ chessOver /\ winner = "ai"
  /\ moveCount >= 3
  /\ ~isPlayerTurn
  /\ aiTimers = <<>>
  /\ Len(capturedPieces.black) >= 1


====
